---- MODULE Spec2Model ----
(***************************************************************************)
(* nope-IAM: the decision engine IAM.can (src/src/core/iam.ts), the        *)
(* default policy evaluator (src/src/core/defaultEvaluator.ts), the        *)
(* default condition operators and the two shipped storage adapters,       *)
(* modelled as a state machine of one IAM.can call.                        *)
(*                                                                         *)
(* One call is cut at its await points.  The evaluator itself contains no  *)
(* await, so it is one atomic step.  A hook is a user function: every      *)
(* invocation of a registered hook either returns or throws.               *)
(*                                                                         *)
(* The variables of the call are those of the call the event loop is       *)
(* running; a second call on the same engine waits in `other`, and the     *)
(* two change places at an await.                                          *)
(*                                                                         *)
(* Around the call: the ConditionOperatorRegistry, the default operators   *)
(* applied on their own, the write side of the two storage adapters, and   *)
(* the decorators and framework gates that call IAM.can.  Each has its own *)
(* specification over the same variables.                                  *)
(***************************************************************************)
EXTENDS Integers, Sequences, FiniteSets, TLC

VARIABLES
    hooks,          \* IAM.hooks: the set of hook names that are registered
    adapter,        \* IAM.storage: "none", "memory", "json" or "custom"
    policies,       \* storage content: the stored policies, in stored order
    roles,          \* storage content: the stored roles, in stored order
    params,         \* the CanParams of the call: user, action, resource, context
    pc,             \* position of the call inside IAM.can
    calls,          \* the three callStorage invocations: position, result, error
    notFound,       \* role ids still to be reported through onRoleNotFound
    condQueue,      \* operator wrappers suspended before their onConditionCheck
    result,         \* local `result` of IAM.can
    error,          \* local `error` of IAM.can
    outcome,        \* how the promise returned by IAM.can settled
    inspected,      \* the <<policy id, statement index>> pairs the evaluator tested
    log,            \* every hook invocation and storage call, in order
    unhandled,      \* messages of promise rejections nobody awaits
    other,          \* a second call in flight on the same engine, suspended
    earlier,        \* the requests the engine has served, with their Decisions
    registry,       \* a ConditionOperatorRegistry and the mappings all() returned
    applied,        \* the last application of a default operator, with its result
    memory,         \* InMemoryAdapter: the entries of its three Maps
    json,           \* JSONFileAdapter: its fields `data` and `loaded`
    file,           \* the content of the file JSONFileAdapter reads and writes
    tasks,          \* adapter operations in flight, each at one of its awaits
    expected,       \* what the completed adapter operations stored, by type and id
    gate,           \* a decorated method or framework gate, and how it ended
    instants        \* the storage contents that existed since the call began

vars == <<hooks, adapter, policies, roles, params, pc, calls, notFound,
          condQueue, result, error, outcome, inspected, log, unhandled,
          other, earlier, registry, applied, memory, json, file, tasks,
          expected, gate, instants>>

----------------------------------------------------------------------------
\* Bounds of the model.

\* longest statement list of a policy in the statement-centred initial states
MaxStmts == 2
\* longest user.policyIds / user.roleIds in the reachability-centred initial states
MaxUserRefs == 2
\* most hooks registered together (besides "all seven")
MaxHooks == 2

----------------------------------------------------------------------------
\* JavaScript values that occur in contexts and conditions.

Undefined == [t |-> "undefined", v |-> "undefined"]
Str(s) == [t |-> "string", v |-> s]
Num(n) == [t |-> "number", v |-> n]
Arr(s) == [t |-> "array", v |-> s]

\* a === b; two arrays are distinct objects and never identical
StrictEq(a, b) ==
    /\ a.t = b.t
    /\ a.t # "array"
    /\ a.v = b.v

IsNumber(a) == a.t = "number"

\* Array.prototype.includes (SameValueZero, which is === on these values)
Includes(arr, x) == \E i \in 1..Len(arr) : StrictEq(arr[i], x)

\* context[key]: a missing key reads as undefined
CtxGet(context, key) ==
    IF key \in DOMAIN context THEN context[key] ELSE Undefined

\* The own properties of defaultConditionOperators that the model applies.
\* (contains and regex work on substrings and patterns; no condition of the
\* model names them.)
DefaultOperatorNames == {"eq", "ne", "gt", "lt", "gte", "lte", "in"}

\* Properties every object literal inherits from Object.prototype: looking one
\* of them up in the operators table yields a function, not undefined.
InheritedNames == {"toString"}

\* ToNumber of a value the relational operators coerce: a numeric string
\* reads as its number, anything else that is no number as NaN (no value)
ToNumber(a) ==
    CASE a.t = "number" -> <<a.v>>
      [] a = Str("2") -> <<2>>
      [] OTHER -> <<>>

\* DefaultOperator whose gt/lt/gte/lte compare without the typeof checks
DefaultOperatorUnchecked(name, key, value, context) ==
    LET c == CtxGet(context, key)
        both == ToNumber(c) # <<>> /\ ToNumber(value) # <<>>
        x == ToNumber(c)[1]
        y == ToNumber(value)[1]
    IN
    CASE name = "eq"  -> StrictEq(c, value)
      [] name = "ne"  -> ~StrictEq(c, value)
      [] name = "gt"  -> both /\ x > y
      [] name = "lt"  -> both /\ x < y
      [] name = "gte" -> both /\ x >= y
      [] name = "lte" -> both /\ x <= y
      [] name = "in"  -> value.t = "array" /\ Includes(value.v, c)

\* defaultConditionOperators[name](key, value, context)
DefaultOperator(name, key, value, context) ==
    LET c == CtxGet(context, key) IN
    CASE name = "eq"  -> StrictEq(c, value)
      [] name = "ne"  -> ~StrictEq(c, value)
      [] name = "gt"  -> IsNumber(c) /\ IsNumber(value) /\ c.v > value.v
      [] name = "lt"  -> IsNumber(c) /\ IsNumber(value) /\ c.v < value.v
      [] name = "gte" -> IsNumber(c) /\ IsNumber(value) /\ c.v >= value.v
      [] name = "lte" -> IsNumber(c) /\ IsNumber(value) /\ c.v <= value.v
      [] name = "in"  -> value.t = "array" /\ Includes(value.v, c)

----------------------------------------------------------------------------
\* Storage adapters.  The stored entities are kept as sequences without
\* repeated ids: the entries of InMemoryAdapter's Maps, or the arrays of the
\* file JSONFileAdapter has loaded.

\* MemoryGet that gives up on the whole list when one id is unknown
MemoryGetAllOrNothing(stored, ids) ==
    IF \A i \in 1..Len(ids) : \E k \in 1..Len(stored) : stored[k].id = ids[i]
    THEN [i \in 1..Len(ids) |->
             stored[CHOOSE k \in 1..Len(stored) : stored[k].id = ids[i]]]
    ELSE <<>>

\* InMemoryAdapter.getRoles / getPolicies:
\*   ids.map((id) => this.map.get(id)).filter(Boolean)
RECURSIVE MemoryGet(_, _)
MemoryGet(stored, ids) ==
    IF ids = <<>> THEN <<>>
    ELSE LET hit == SelectSeq(stored, LAMBDA e : e.id = Head(ids))
         IN  (IF hit = <<>> THEN <<>> ELSE <<hit[1]>>) \o MemoryGet(stored, Tail(ids))

\* JSONFileAdapter.getRoles / getPolicies:
\*   this.data.xs.filter(x => ids.includes(x.id))
JsonGet(stored, ids) ==
    SelectSeq(stored, LAMBDA e : \E i \in 1..Len(ids) : ids[i] = e.id)

\* (this.storage as any)[method](...args) when it resolves; the "custom"
\* adapter stores like InMemoryAdapter but its calls may also reject
StorageResult(kind, stored, ids) ==
    IF kind = "json" THEN JsonGet(stored, ids) ELSE MemoryGet(stored, ids)

----------------------------------------------------------------------------
\* defaultPolicyEvaluator.

\* operators[cond.operator]: "default" is the operator itself, "wrapped" the
\* async wrapper IAM.can puts around it when onConditionCheck is registered
OperatorLookup(name, hooked) ==
    CASE name \in DefaultOperatorNames -> IF hooked THEN "wrapped" ELSE "default"
      [] name \in InheritedNames -> "inherited"
      [] OTHER -> "undefined"

\* op ? op(cond.key, cond.value, context) : false
\* A wrapper returns a Promise; Object.prototype.toString called as a plain
\* function returns the string "[object Undefined]".
OperatorResult(kind, cond, context) ==
    CASE kind = "default" ->
             IF DefaultOperator(cond.operator, cond.key, cond.value, context)
             THEN "true" ELSE "false"
      [] kind = "wrapped" -> "promise"
      [] kind = "inherited" -> "string"
      [] OTHER -> "false"

\* what Array.prototype.every makes of the callback's return value
Truthy(r) == r \in {"true", "promise", "string"}

\* stmt.conditions.every(...) from condition i on.  `ran` lists the default
\* operators that were run, with the boolean each returned.
RECURSIVE Every(_, _, _, _)
Every(conds, i, context, hooked) ==
    IF i > Len(conds) THEN [all |-> TRUE, ran |-> <<>>]
    ELSE LET cond == conds[i]
             kind == OperatorLookup(cond.operator, hooked)
             ran  == IF kind \in {"default", "wrapped"}
                     THEN <<[operator |-> cond.operator, key |-> cond.key,
                             value |-> cond.value,
                             res |-> DefaultOperator(cond.operator, cond.key,
                                                     cond.value, context)]>>
                     ELSE <<>>
         IN  IF Truthy(OperatorResult(kind, cond, context))
             THEN LET rest == Every(conds, i + 1, context, hooked)
                  IN  [all |-> rest.all, ran |-> ran \o rest.ran]
             ELSE [all |-> FALSE, ran |-> ran]

\* the condition of the `if` at defaultEvaluator.ts:46-56
StatementMatches(stmt, action, resource, context, hooked) ==
    IF action \in stmt.actions /\ resource \in stmt.resources
    THEN IF ~stmt.conditions.defined
         THEN [match |-> TRUE, ran |-> <<>>]
         ELSE LET e == Every(stmt.conditions.items, 1, context, hooked)
              IN  [match |-> e.all, ran |-> e.ran]
    ELSE [match |-> FALSE, ran |-> <<>>]

\* UniquePolicies without the Map: every fetched policy is evaluated, repeated
\* or not
UniquePoliciesKeepAll(ps) == ps

\* [...new Map(policies.map((p) => [p.id, p])).values()]: a Map keeps a key at
\* the position of its first insertion and holds the value inserted last
UniquePolicies(ps) ==
    LET firstAt(i) == \A k \in 1..(i - 1) : ps[k].id # ps[i].id
        lastOf(id) == ps[CHOOSE k \in 1..Len(ps) :
                            /\ ps[k].id = id
                            /\ \A m \in (k + 1)..Len(ps) : ps[m].id # id]
        RECURSIVE From(_)
        From(i) == IF i > Len(ps) THEN <<>>
                   ELSE (IF firstAt(i) THEN <<lastOf(ps[i].id)>> ELSE <<>>) \o From(i + 1)
    IN  From(1)

Reason(text, id) == [text |-> text, id |-> id]

\* the inner loop `for (const stmt of policy.statements)` from statement j on:
\* the index of the statement that returned (0 if the loop ran out), the
\* statements inspected and the operators run
RECURSIVE EvalStatements(_, _, _, _, _, _)
EvalStatements(policy, j, action, resource, context, hooked) ==
    IF j > Len(policy.statements) THEN [hit |-> 0, inspected |-> <<>>, ran |-> <<>>]
    ELSE LET stmt == policy.statements[j]
             m == StatementMatches(stmt, action, resource, context, hooked)
         IN  IF m.match /\ stmt.effect \in {"Allow", "Deny"}
             THEN [hit |-> j, inspected |-> <<<<policy.id, j>>>>, ran |-> m.ran]
             ELSE LET rest == EvalStatements(policy, j + 1, action, resource,
                                             context, hooked)
                  IN  [hit |-> rest.hit,
                       inspected |-> <<<<policy.id, j>>>> \o rest.inspected,
                       ran |-> m.ran \o rest.ran]

\* the outer loop `for (const policy of allPolicies)` from policy i on
RECURSIVE EvalPolicies(_, _, _, _, _, _, _)
EvalPolicies(ps, i, checked, action, resource, context, hooked) ==
    IF i > Len(ps)
    THEN [decision |-> FALSE,
          trace |-> [checkedPolicies |-> checked,
                     reason |-> Reason("No matching policy", "")],
          inspected |-> <<>>, ran |-> <<>>]
    ELSE LET policy == ps[i]
             pushed == Append(checked, policy.id)
             s == EvalStatements(policy, 1, action, resource, context, hooked)
         IN  IF s.hit > 0
             THEN [decision |-> policy.statements[s.hit].effect = "Allow",
                   trace |-> [checkedPolicies |-> pushed,
                              reason |-> Reason(
                                  IF policy.statements[s.hit].effect = "Allow"
                                  THEN "Allowed by policy" ELSE "Denied by policy",
                                  policy.id)],
                   inspected |-> s.inspected, ran |-> s.ran]
             ELSE LET rest == EvalPolicies(ps, i + 1, pushed, action, resource,
                                           context, hooked)
                  IN  [decision |-> rest.decision, trace |-> rest.trace,
                       inspected |-> s.inspected \o rest.inspected,
                       ran |-> s.ran \o rest.ran]

\* defaultPolicyEvaluator(logger)(user, action, resource, context, policies,
\* roles, operators)
Evaluate(action, resource, context, ps, hooked) ==
    EvalPolicies(UniquePolicies(ps), 1, <<>>, action, resource, context, hooked)

----------------------------------------------------------------------------
\* IAM.can: the values it builds.

HookNames == {"onBeforeDecision", "onStorageAccess", "onRoleNotFound",
              "onConditionCheck", "onDecision", "onError", "onAfterDecision"}

\* the message of the Error a hook throws when it throws
HookError(h) ==
    CASE h = "onBeforeDecision" -> "onBeforeDecision failed"
      [] h = "onStorageAccess"  -> "onStorageAccess failed"
      [] h = "onRoleNotFound"   -> "onRoleNotFound failed"
      [] h = "onConditionCheck" -> "onConditionCheck failed"
      [] h = "onDecision"       -> "onDecision failed"
      [] h = "onError"          -> "onError failed"
      [] h = "onAfterDecision"  -> "onAfterDecision failed"

\* the message of the Error a rejecting storage call rejects with
StorageError(method) ==
    IF method = "getRoles" THEN "getRoles failed" ELSE "getPolicies failed"

NoStorageMessage == "No storage adapter configured"

\* `let error: unknown = undefined`
NoError == ""

\* `let result = undefined`
NoDecision ==
    [defined |-> FALSE, decision |-> FALSE,
     trace |-> [checkedPolicies |-> <<>>, reason |-> Reason("", "")]]

Decision(granted, trace) ==
    [defined |-> TRUE, decision |-> granted, trace |-> trace]

\* the object literal returned by the catch block, iam.ts:181-185
ErrorDecision(message) ==
    Decision(FALSE, [checkedPolicies |-> <<>>, reason |-> Reason(message, "")])

Pending == [state |-> "pending", value |-> NoDecision, err |-> NoError]

CallNames == {"userPolicies", "userRoles", "rolePolicies"}

\* Method of an engine that looks the entities up one by one
MethodSingleLookup(c) == IF c = "userRoles" THEN "getRole" ELSE "getPolicy"

\* the storage method callStorage invocation c is made for
Method(c) == IF c = "userRoles" THEN "getRoles" ELSE "getPolicies"

IdleCall == [at |-> "idle", args |-> <<>>, res |-> <<>>, err |-> NoError]

Event(name, phase, arg) == [name |-> name, phase |-> phase, arg |-> arg]

\* the call is over
Done == pc = "done"

\* where callStorage begins and where it goes once the storage call resolved:
\* the onStorageAccess invocations exist only if the hook is registered
FirstAt(hs) == IF "onStorageAccess" \in hs THEN "before" ELSE "call"
\* AfterCallAt of a callStorage that returns res without the second
\* onStorageAccess invocation
AfterCallAtSkipsHook(hs) == "fulfilled"
AfterCallAt(hs) == IF "onStorageAccess" \in hs THEN "after" ELSE "fulfilled"

\* userRoles.flatMap((r) => r.policyIds)
RECURSIVE FlatPolicyIds(_)
FlatPolicyIds(rs) ==
    IF rs = <<>> THEN <<>> ELSE Head(rs).policyIds \o FlatPolicyIds(Tail(rs))

\* the role ids the block at iam.ts:128-145 hands to onRoleNotFound, in order
RolesToReport(hs, roleIds, userRoles) ==
    IF "onRoleNotFound" \notin hs THEN <<>>
    ELSE IF Len(roleIds) = 0 THEN <<"null">>
    ELSE IF Len(userRoles) = 0 THEN roleIds
    ELSE <<>>       \* userRoles.some(r => !r): no adapter returns an empty slot

----------------------------------------------------------------------------
\* IAM.can: the steps of one call.

config == <<hooks, adapter, policies, roles, params>>

\* what is outside IAM.can: the registry, the operators applied on their own,
\* the write side of the adapters, the gates, the history of storage
apart == <<registry, applied, memory, json, file, tasks, expected, gate, instants>>

\* what no step of a call touches: the other call, the calls served before
\* and what is outside IAM.can
waiting == <<other, earlier, apart>>

\* control enters the catch block with err = message (iam.ts:177-178)
Raise(message) ==
    /\ pc' = "catch"
    /\ error' = message

\* iam.ts:107: onBeforeDecision, awaited
BeforeDecision ==
    /\ pc = "start"
    /\ \/ /\ "onBeforeDecision" \notin hooks
          /\ pc' = "storage"
          /\ UNCHANGED <<error, log>>
       \/ /\ "onBeforeDecision" \in hooks
          /\ log' = Append(log, Event("onBeforeDecision", "", <<>>))
          /\ \/ pc' = "storage" /\ UNCHANGED error
             \/ Raise(HookError("onBeforeDecision"))
    /\ UNCHANGED <<config, waiting, calls, notFound, condQueue, result, outcome,
                   inspected, unhandled>>

\* iam.ts:108-126: without storage throw; otherwise both callStorage
\* invocations of the Promise.all are started
CheckStorage ==
    /\ pc = "storage"
    /\ \/ /\ adapter = "none"
          /\ Raise(NoStorageMessage)
          /\ UNCHANGED calls
       \/ /\ adapter # "none"
          /\ pc' = "fetch"
          /\ calls' = [calls EXCEPT
                 !["userPolicies"] = [IdleCall EXCEPT !.at = FirstAt(hooks),
                                          !.args = params.user.policyIds],
                 !["userRoles"] = [IdleCall EXCEPT !.at = FirstAt(hooks),
                                          !.args = params.user.roleIds]]
          /\ UNCHANGED error
    /\ UNCHANGED <<config, waiting, notFound, condQueue, result, outcome, inspected,
                   log, unhandled>>

\* the phase of IAM.can that awaits callStorage invocation c
PhaseOf(c) == IF c = "rolePolicies" THEN "fetch2" ELSE "fetch"

\* callStorage invocation c rejects with message.  If IAM.can still awaits it
\* (for the Promise.all: no other member has rejected before) the await throws
\* into the catch block; a later rejection of a Promise.all member is dropped.
CallRejects(c, message) ==
    /\ calls' = [calls EXCEPT ![c].at = "rejected", ![c].err = message]
    /\ IF pc = PhaseOf(c) THEN Raise(message) ELSE UNCHANGED <<pc, error>>

\* the two callStorage invocations of the Promise.all start in array order
Started(c) ==
    c = "userRoles" => calls["userPolicies"].at # FirstAt(hooks)

\* iam.ts:116: onStorageAccess(method, args) before the storage call (the log
\* entry also names the callStorage invocation the hook was called from)
CallBefore(c) ==
    /\ calls[c].at = "before"
    /\ Started(c)
    /\ log' = Append(log, Event("onStorageAccess", "before",
                                <<c, Method(c)>> \o calls[c].args))
    /\ \/ calls' = [calls EXCEPT ![c].at = "call"] /\ UNCHANGED <<pc, error>>
       \/ CallRejects(c, HookError("onStorageAccess"))
    /\ UNCHANGED <<config, waiting, notFound, condQueue, result, outcome, inspected,
                   unhandled>>

\* iam.ts:117: the storage method is called and awaited
CallStorage(c) ==
    /\ calls[c].at = "call"
    /\ Started(c)
    /\ log' = Append(log, Event("storage", c, <<Method(c)>> \o calls[c].args))
    /\ \/ /\ calls' = [calls EXCEPT
                  ![c].at = AfterCallAt(hooks),
                  ![c].res = StorageResult(adapter,
                                 IF c = "userRoles" THEN roles ELSE policies,
                                 calls[c].args)]
          /\ UNCHANGED <<pc, error>>
       \/ /\ adapter = "custom"
          /\ CallRejects(c, StorageError(Method(c)))
    /\ UNCHANGED <<config, waiting, notFound, condQueue, result, outcome, inspected,
                   unhandled>>

\* iam.ts:118: onStorageAccess(method, args, res) after the storage call
CallAfter(c) ==
    /\ calls[c].at = "after"
    /\ log' = Append(log, Event("onStorageAccess", "after",
                                <<c, Method(c)>> \o calls[c].args))
    /\ \/ calls' = [calls EXCEPT ![c].at = "fulfilled"] /\ UNCHANGED <<pc, error>>
       \/ CallRejects(c, HookError("onStorageAccess"))
    /\ UNCHANGED <<config, waiting, notFound, condQueue, result, outcome, inspected,
                   unhandled>>

\* iam.ts:123-145: the Promise.all fulfils; the role ids to report are fixed
Fetched ==
    /\ pc = "fetch"
    /\ calls["userPolicies"].at = "fulfilled"
    /\ calls["userRoles"].at = "fulfilled"
    /\ notFound' = RolesToReport(hooks, params.user.roleIds, calls["userRoles"].res)
    /\ pc' = "notFound"
    /\ UNCHANGED <<config, waiting, calls, condQueue, result, error, outcome, inspected,
                   log, unhandled>>

\* iam.ts:131, 135, 141: one onRoleNotFound invocation, awaited
RoleNotFound ==
    /\ pc = "notFound"
    /\ notFound # <<>>
    /\ log' = Append(log, Event("onRoleNotFound", "", <<Head(notFound)>>))
    /\ notFound' = Tail(notFound)
    /\ \/ UNCHANGED <<pc, error>>
       \/ Raise(HookError("onRoleNotFound"))
    /\ UNCHANGED <<config, waiting, calls, condQueue, result, outcome, inspected,
                   unhandled>>

\* iam.ts:147-148: callStorage("getPolicies", rolePolicyIds) is started
FetchRolePolicies ==
    /\ pc = "notFound"
    /\ notFound = <<>>
    /\ calls' = [calls EXCEPT
           !["rolePolicies"] = [IdleCall EXCEPT !.at = FirstAt(hooks),
                                    !.args = FlatPolicyIds(calls["userRoles"].res)]]
    /\ pc' = "fetch2"
    /\ UNCHANGED <<config, waiting, notFound, condQueue, result, error, outcome,
                   inspected, log, unhandled>>

\* Evaluated on an engine that keeps the request of the call that began last
\* in a field of its own and evaluates that one
EvaluatedSharedRequest ==
    /\ pc = "fetch2"
    /\ calls["rolePolicies"].at = "fulfilled"
    /\ LET hooked == "onConditionCheck" \in hooks
           shared == IF other.pc \in {"none", "start", "done"} THEN params
                     ELSE other.params
           r == Evaluate(shared.action, shared.resource, shared.context,
                         calls["userPolicies"].res \o calls["rolePolicies"].res,
                         hooked)
       IN  /\ result' = Decision(r.decision, r.trace)
           /\ inspected' = r.inspected
           /\ condQueue' = IF hooked THEN r.ran ELSE <<>>
    /\ pc' = "decision"
    /\ UNCHANGED <<config, waiting, calls, notFound, error, outcome, log, unhandled>>

\* iam.ts:149-173: the evaluator runs over [...userPolicies, ...rolePolicies].
\* With onConditionCheck registered every operator is wrapped: the wrapper
\* has run the operator and is suspended before the hook.
Evaluated ==
    /\ pc = "fetch2"
    /\ calls["rolePolicies"].at = "fulfilled"
    /\ LET hooked == "onConditionCheck" \in hooks
           r == Evaluate(params.action, params.resource, params.context,
                         calls["userPolicies"].res \o calls["rolePolicies"].res,
                         hooked)
       IN  /\ result' = Decision(r.decision, r.trace)
           /\ inspected' = r.inspected
           /\ condQueue' = IF hooked THEN r.ran ELSE <<>>
    /\ pc' = "decision"
    /\ UNCHANGED <<config, waiting, calls, notFound, error, outcome, log, unhandled>>

\* iam.ts:158-161: a suspended wrapper resumes and invokes onConditionCheck.
\* The evaluator never awaited the wrapper's promise: if the hook throws the
\* rejection is handled nowhere.  The wrappers resume before IAM.can does.
ConditionCheck ==
    /\ pc = "decision"
    /\ condQueue # <<>>
    /\ LET c == Head(condQueue)
       IN  log' = Append(log, Event("onConditionCheck", c.operator,
                                   <<c.key, IF c.res THEN "true" ELSE "false">>))
    /\ condQueue' = Tail(condQueue)
    /\ \/ UNCHANGED unhandled
       \/ unhandled' = Append(unhandled, HookError("onConditionCheck"))
    /\ UNCHANGED <<config, waiting, pc, calls, notFound, result, error, outcome, inspected>>

\* iam.ts:175-176: onDecision(result), awaited; then `return result`
OnDecision ==
    /\ pc = "decision"
    /\ condQueue = <<>>
    /\ \/ /\ "onDecision" \notin hooks
          /\ outcome' = [state |-> "returning", value |-> result, err |-> NoError]
          /\ pc' = "finally"
          /\ UNCHANGED <<error, log>>
       \/ /\ "onDecision" \in hooks
          /\ log' = Append(log, Event("onDecision", "", <<>>))
          /\ \/ /\ outcome' = [state |-> "returning", value |-> result,
                                err |-> NoError]
                /\ pc' = "finally"
                /\ UNCHANGED error
             \/ /\ Raise(HookError("onDecision"))
                /\ UNCHANGED outcome
    /\ UNCHANGED <<config, waiting, calls, notFound, condQueue, result, inspected,
                   unhandled>>

\* iam.ts:177-185: the catch block: onError(err), awaited; then the denied
\* Decision is returned.  What onError throws leaves the catch block.
\* (Both callStorage invocations of the Promise.all take their first step
\* synchronously, before any await of IAM.can can throw.)
Catch ==
    /\ pc = "catch"
    /\ calls["userRoles"].at # FirstAt(hooks)
    /\ \/ /\ "onError" \notin hooks
          /\ outcome' = [state |-> "returning", value |-> ErrorDecision(error),
                          err |-> NoError]
          /\ UNCHANGED log
       \/ /\ "onError" \in hooks
          /\ log' = Append(log, Event("onError", "", <<error>>))
          /\ \/ outcome' = [state |-> "returning", value |-> ErrorDecision(error),
                             err |-> NoError]
             \/ outcome' = [state |-> "throwing", value |-> NoDecision,
                             err |-> HookError("onError")]
    /\ pc' = "finally"
    /\ UNCHANGED <<config, waiting, calls, notFound, condQueue, result, error, inspected,
                   unhandled>>

\* Finally without the try/catch around the hook: what onAfterDecision throws
\* replaces the pending return or throw of the call
FinallyUnguarded ==
    /\ pc = "finally"
    /\ \/ /\ "onAfterDecision" \notin hooks
          /\ UNCHANGED log
          /\ outcome' = [outcome EXCEPT !.state = IF outcome.state = "returning"
                                                   THEN "resolved" ELSE "rejected"]
       \/ /\ "onAfterDecision" \in hooks
          /\ log' = Append(log, Event("onAfterDecision",
                                      IF result.defined THEN "decision" ELSE "undefined",
                                      <<error>>))
          /\ \/ outcome' = [outcome EXCEPT !.state = IF outcome.state = "returning"
                                                      THEN "resolved" ELSE "rejected"]
             \/ outcome' = [state |-> "rejected", value |-> NoDecision,
                             err |-> HookError("onAfterDecision")]
    /\ pc' = "done"
    /\ UNCHANGED <<config, waiting, calls, notFound, condQueue, result, error, inspected,
                   unhandled>>

\* iam.ts:186-194: the finally block: onAfterDecision(result, error); what it
\* throws is caught and written to console.error; then the pending return or
\* throw completes
Finally ==
    /\ pc = "finally"
    /\ \/ /\ "onAfterDecision" \notin hooks
          /\ UNCHANGED log
       \/ /\ "onAfterDecision" \in hooks
          /\ LET invoked == Append(log, Event("onAfterDecision",
                                  IF result.defined THEN "decision" ELSE "undefined",
                                  <<error>>))
             IN  \/ log' = invoked
                 \/ log' = Append(invoked, Event("console.error", "",
                                                <<HookError("onAfterDecision")>>))
    /\ outcome' = [outcome EXCEPT !.state = IF outcome.state = "returning"
                                             THEN "resolved" ELSE "rejected"]
    /\ pc' = "done"
    /\ UNCHANGED <<config, waiting, calls, notFound, condQueue, result, error, inspected,
                   unhandled>>

Next ==
    \/ BeforeDecision
    \/ CheckStorage
    \/ \E c \in CallNames : CallBefore(c)
    \/ \E c \in CallNames : CallStorage(c)
    \/ \E c \in CallNames : CallAfter(c)
    \/ Fetched
    \/ RoleNotFound
    \/ FetchRolePolicies
    \/ Evaluated
    \/ ConditionCheck
    \/ OnDecision
    \/ Catch
    \/ Finally

----------------------------------------------------------------------------
\* The engines, storage contents and requests the call is explored on.

SeqsUpTo(S, n) == UNION {[1..k -> S] : k \in 0..n}

Context(owner, level) == [owner |-> owner, level |-> level]

Contexts == {Context(Str("u1"), Num(2)), Context(Str("u1"), Num(1)),
             Context(Str("u2"), Num(2)), Context(Undefined, Undefined)}

NoConditions == [defined |-> FALSE, items |-> <<>>]
Conditions(items) == [defined |-> TRUE, items |-> items]

Cond(operator, key, value) == [operator |-> operator, key |-> key, value |-> value]
OwnerIsU1 == Cond("eq", "owner", Str("u1"))
LevelAbove1 == Cond("gt", "level", Num(1))
OwnerListed == Cond("in", "owner", Arr(<<Str("u2"), Str("u3")>>))
Unregistered == Cond("nope", "owner", Str("u1"))
Inherited == Cond("toString", "owner", Str("zz"))

Stmt(effect, actions, resources, conditions) ==
    [effect |-> effect, actions |-> actions, resources |-> resources,
     conditions |-> conditions]

AllowRead == Stmt("Allow", {"read"}, {"doc:1"}, NoConditions)
DenyRead == Stmt("Deny", {"read"}, {"doc:1"}, NoConditions)
AllowWrite == Stmt("Allow", {"write"}, {"doc:1"}, NoConditions)

StmtPool ==
    {AllowRead, DenyRead, AllowWrite,
     Stmt("Allow", {"read", "write"}, {}, NoConditions),
     Stmt("Allow", {}, {"doc:1"}, Conditions(<<>>)),
     Stmt("Allow", {"read"}, {"doc:1", "doc:2"}, Conditions(<<OwnerIsU1>>)),
     Stmt("Deny", {"read"}, {"doc:1"}, Conditions(<<OwnerIsU1>>)),
     Stmt("Allow", {"read"}, {"doc:1"}, Conditions(<<OwnerIsU1, LevelAbove1>>)),
     Stmt("Deny", {"read"}, {"doc:1"}, Conditions(<<OwnerListed>>)),
     Stmt("Allow", {"read"}, {"doc:1"}, Conditions(<<Unregistered>>)),
     Stmt("Allow", {"read"}, {"doc:1"}, Conditions(<<Inherited>>))}

Policy(id, statements) == [id |-> id, statements |-> statements]
Role(id, policyIds) == [id |-> id, policyIds |-> policyIds]
User(roleIds, policyIds) == [id |-> "u1", roleIds |-> roleIds, policyIds |-> policyIds]
Params(user, context) ==
    [user |-> user, action |-> "read", resource |-> "doc:1", context |-> context]

\* the state of IAM.can as the call begins
CallBegins ==
    /\ pc = "start"
    /\ calls = [c \in CallNames |-> IdleCall]
    /\ notFound = <<>>
    /\ condQueue = <<>>
    /\ result = NoDecision
    /\ error = NoError
    /\ outcome = Pending
    /\ inspected = <<>>
    /\ log = <<>>
    /\ unhandled = <<>>

\* Statement-centred: every statement list up to MaxStmts for policy p1, in
\* front of a one-statement policy p2, both attached to the user directly.
InitStatements ==
    /\ hooks \in {{}, {"onConditionCheck"}}
    /\ adapter = "memory"
    /\ \E body \in SeqsUpTo(StmtPool, MaxStmts), last \in {AllowRead, DenyRead} :
           policies = <<Policy("p1", body), Policy("p2", <<last>>)>>
    /\ roles = <<>>
    /\ \E context \in Contexts :
           params = Params(User(<<>>, <<"p1", "p2">>), context)

\* Reachability-centred: every user.policyIds and user.roleIds up to
\* MaxUserRefs over two policies and two roles, either of which may be
\* missing from storage, on both shipped adapters.
InitReach ==
    /\ hooks = {}
    /\ adapter \in {"memory", "json"}
    /\ \E s1 \in {AllowRead, DenyRead, AllowWrite}, s2 \in {AllowRead, DenyRead},
          n \in 1..2 :
           policies = SubSeq(<<Policy("p1", <<s1>>), Policy("p2", <<s2>>)>>, 1, n)
    /\ \E l1 \in {<<"p1">>, <<"p2", "p1">>}, l2 \in {<<>>, <<"p1", "p2">>}, n \in 1..2 :
           roles = SubSeq(<<Role("r1", l1), Role("r2", l2)>>, 1, n)
    /\ \E roleIds \in SeqsUpTo({"r1", "r2"}, MaxUserRefs),
          policyIds \in SeqsUpTo({"p1", "p2"}, MaxUserRefs) :
           params = Params(User(roleIds, policyIds), Context(Str("u1"), Num(2)))

HookSets == {hs \in SUBSET HookNames : Cardinality(hs) <= MaxHooks \/ hs = HookNames}

\* Hook-centred: every small set of hooks (and all of them) with every kind
\* of storage, on the scenarios of the repository's tests.
InitHooks ==
    /\ hooks \in HookSets
    /\ adapter \in {"none", "memory", "custom"}
    /\ roles = <<Role("r1", <<"p1">>)>>
    /\ \E user \in {User(<<"r1">>, <<>>), User(<<>>, <<"p1">>),
                    User(<<"rX", "rY">>, <<"p1">>), User(<<"rX", "r1">>, <<>>)},
          scenario \in
              {<<AllowRead, Str("u1")>>, <<DenyRead, Str("u1")>>,
               <<AllowWrite, Str("u1")>>,
               <<Stmt("Allow", {"read"}, {"doc:1"}, Conditions(<<OwnerIsU1>>)),
                 Str("u1")>>,
               <<Stmt("Allow", {"read"}, {"doc:1"}, Conditions(<<OwnerIsU1>>)),
                 Str("u2")>>} :
           /\ policies = <<Policy("p1", <<scenario[1]>>)>>
           /\ params = Params(user, Context(scenario[2], Num(2)))

\* new ConditionOperatorRegistry(): `operators = {}`, an object without
\* properties, is the first object on the heap, and all() has returned
\* nothing yet
RegistryNew ==
    [heap |-> <<[n \in {} |-> "undefined"]>>, operators |-> 1,
     returned |-> <<>>, did |-> "new"]

\* no default operator has been applied
NotApplied == [name |-> "", key |-> "", value |-> Undefined, context |-> <<>>,
               res |-> FALSE]

\* the three collections of an adapter, empty: `new InMemoryAdapter()` and the
\* initial `data` of JSONFileAdapter
EmptyData == [users |-> <<>>, roles |-> <<>>, policies |-> <<>>]

\* the JSON file does not exist
NoFile == [exists |-> FALSE, text |-> EmptyData]

\* new JSONFileAdapter(filePath)
JsonNew == [data |-> EmptyData, loaded |-> FALSE]

\* nothing has been saved
NothingSaved == [memory |-> {}, json |-> {}]

\* the registry
RegistryApart == registry = RegistryNew
\* the operators applied on their own
AppliedApart == applied = NotApplied
\* the write side of the adapters
AdaptersApart ==
    /\ memory = EmptyData
    /\ json = JsonNew
    /\ file = NoFile
    /\ tasks = <<>>
    /\ expected = NothingSaved
\* the gates: none has been entered
GateApart == gate = [kind |-> "none", at |-> "idle"]
\* the history of storage
InstantsApart == instants = <<>>

\* nothing outside IAM.can takes part
Apart ==
    /\ RegistryApart
    /\ AppliedApart
    /\ AdaptersApart
    /\ GateApart
    /\ InstantsApart

\* the locals of a call of IAM.can with CanParams p that has not run yet
Invoked(p) ==
    [params |-> p, pc |-> "start", calls |-> [c \in CallNames |-> IdleCall],
     notFound |-> <<>>, condQueue |-> <<>>, result |-> NoDecision,
     error |-> NoError, outcome |-> Pending, inspected |-> <<>>, log |-> <<>>,
     unhandled |-> <<>>]

\* the engine serves this one call
SingleCall ==
    /\ other = [Invoked(params) EXCEPT !.pc = "none"]
    /\ earlier = {}

Init ==
    /\ CallBegins
    /\ \/ InitStatements
       \/ InitReach
       \/ InitHooks
    /\ SingleCall
    /\ Apart

Spec == Init /\ [][Next]_vars

----------------------------------------------------------------------------
\* Several calls on one engine.  IAM.can keeps what it works on in locals
\* (iam.ts:103-104, 112-121, 147-154); the engine's fields are set by the
\* constructor only.  Two calls in flight take turns at their awaits.

\* the locals of the running call
Running ==
    [params |-> params, pc |-> pc, calls |-> calls, notFound |-> notFound,
     condQueue |-> condQueue, result |-> result, error |-> error,
     outcome |-> outcome, inspected |-> inspected, log |-> log,
     unhandled |-> unhandled]

\* the running call is suspended at an await and the event loop resumes the
\* other one
Switch ==
    /\ other.pc # "none"
    /\ other' = Running
    /\ params' = other.params
    /\ pc' = other.pc
    /\ calls' = other.calls
    /\ notFound' = other.notFound
    /\ condQueue' = other.condQueue
    /\ result' = other.result
    /\ error' = other.error
    /\ outcome' = other.outcome
    /\ inspected' = other.inspected
    /\ log' = other.log
    /\ unhandled' = other.unhandled
    /\ UNCHANGED <<hooks, adapter, policies, roles, earlier, apart>>

\* the user, action, resource and context of a request
Request(p) ==
    [user |-> p.user, action |-> p.action, resource |-> p.resource,
     context |-> p.context]

\* the call is over and nothing was thrown on the way: no hook, no storage
\* call, no missing adapter
DoneCleanly == Done /\ error = NoError /\ unhandled = <<>>

\* what the caller of a call that finished without an error has received
Served == [request |-> Request(params), value |-> outcome.value]

\* the requests the callers make of the engine
Requests ==
    {Params(User(<<"r1">>, <<>>), Context(Str("u1"), Num(2))),
     Params(User(<<>>, <<"p1", "p2">>), Context(Str("u2"), Num(2)))}

\* the caller of a finished call keeps its Decision, and can() is called
\* again with one of the requests the callers make
Again ==
    /\ Done
    /\ other.pc # "none"
    /\ earlier' = IF DoneCleanly THEN earlier \cup {Served} ELSE earlier
    /\ \E p \in {params, other.params} : params' = p
    /\ pc' = "start"
    /\ calls' = [c \in CallNames |-> IdleCall]
    /\ notFound' = <<>>
    /\ condQueue' = <<>>
    /\ result' = NoDecision
    /\ error' = NoError
    /\ outcome' = Pending
    /\ inspected' = <<>>
    /\ log' = <<>>
    /\ unhandled' = <<>>
    /\ UNCHANGED <<hooks, adapter, policies, roles, other, apart>>

\* one engine, its storage holding a conditional Allow in front of a Deny,
\* and two calls invoked on it; the engine that observes its storage calls
\* is asked the same request twice
InitCalls ==
    /\ CallBegins
    /\ \E engine \in {<<{}, "memory">>, <<{}, "json">>,
                       <<{"onRoleNotFound", "onConditionCheck"}, "memory">>,
                       <<{"onStorageAccess"}, "memory">>} :
           hooks = engine[1] /\ adapter = engine[2]
    /\ policies =
           <<Policy("p1", <<Stmt("Allow", {"read"}, {"doc:1"},
                                  Conditions(<<OwnerIsU1>>))>>),
             Policy("p2", <<DenyRead>>)>>
    /\ roles = <<Role("r1", <<"p1", "p2">>)>>
    /\ params \in Requests
    /\ \E p \in Requests : other = Invoked(p)
    /\ "onStorageAccess" \in hooks => other.params = params
    /\ earlier = {}
    /\ Apart

NextCalls ==
    \/ Next
    \/ Switch
    \/ Again

SpecCalls == InitCalls /\ [][NextCalls]_vars

----------------------------------------------------------------------------
\* No call of IAM.can takes part: an engine without hooks and storage that
\* nobody has called.
CallApart ==
    /\ CallBegins
    /\ hooks = {}
    /\ adapter = "none"
    /\ policies = <<>>
    /\ roles = <<>>
    /\ params = Params(User(<<>>, <<>>), Context(Undefined, Undefined))
    /\ SingleCall

\* the variables of the call
theCall == <<hooks, adapter, policies, roles, params, pc, calls, notFound,
             condQueue, result, error, outcome, inspected, log, unhandled,
             other, earlier>>

----------------------------------------------------------------------------
\* ConditionOperatorRegistry.  Objects live on a heap and are known by their
\* position in it: the registry's `operators` object and every mapping all()
\* has returned are cells of the heap, so that two names for one object and
\* two objects with equal properties are different things.

\* most mappings the caller obtains from all()
MaxSnapshots == 2

\* the operator names and the predicates (by identity) used with the registry
OperatorKeys == {"eq", "custom"}
Predicates == {"f", "g"}

\* obj[name] = op
SetProperty(obj, name, op) ==
    [n \in DOMAIN obj \cup {name} |-> IF n = name THEN op ELSE obj[n]]

\* delete obj[name]
DeleteProperty(obj, name) == [n \in DOMAIN obj \ {name} |-> obj[n]]

\* obj[name]
GetProperty(obj, name) == IF name \in DOMAIN obj THEN obj[name] ELSE "undefined"

\* { ...obj }: the own properties of obj, for a new object
Spread(obj) == [n \in DOMAIN obj |-> obj[n]]

\* get(name): this.operators[name]
Get(r, name) == GetProperty(r.heap[r.operators], name)

\* all() of a registry that hands out its own object
AllSameObject(r) == [heap |-> r.heap, ref |-> r.operators]

\* all(): return { ...this.operators }: the heap with the new object, and
\* the new object's position
All(r) ==
    [heap |-> Append(r.heap, Spread(r.heap[r.operators])), ref |-> Len(r.heap) + 1]

\* register(name, op): this.operators[name] = op
Register(name, op) ==
    /\ registry' = [registry EXCEPT
           !.heap[registry.operators] = SetProperty(@, name, op),
           !.did = "register"]
    /\ UNCHANGED <<theCall, applied, memory, json, file, tasks, expected, gate,
                   instants>>

\* the caller calls all() and keeps the mapping
CallAll ==
    /\ Len(registry.returned) < MaxSnapshots
    /\ LET a == All(registry)
       IN  registry' = [registry EXCEPT !.heap = a.heap,
                                        !.returned = Append(@, a.ref),
                                        !.did = "all"]
    /\ UNCHANGED <<theCall, applied, memory, json, file, tasks, expected, gate,
                   instants>>

\* the caller adds or replaces an entry of a mapping all() returned
CallerSets(i, name, op) ==
    /\ i \in 1..Len(registry.returned)
    /\ registry' = [registry EXCEPT
           !.heap[registry.returned[i]] = SetProperty(@, name, op),
           !.did = "set"]
    /\ UNCHANGED <<theCall, applied, memory, json, file, tasks, expected, gate,
                   instants>>

\* the caller deletes an entry of a mapping all() returned
CallerDeletes(i, name) ==
    /\ i \in 1..Len(registry.returned)
    /\ name \in DOMAIN registry.heap[registry.returned[i]]
    /\ registry' = [registry EXCEPT
           !.heap[registry.returned[i]] = DeleteProperty(@, name),
           !.did = "delete"]
    /\ UNCHANGED <<theCall, applied, memory, json, file, tasks, expected, gate,
                   instants>>

InitRegistry ==
    /\ CallApart
    /\ RegistryApart
    /\ AppliedApart
    /\ AdaptersApart
    /\ GateApart
    /\ InstantsApart

NextRegistry ==
    \/ \E name \in OperatorKeys, op \in Predicates : Register(name, op)
    \/ CallAll
    \/ \E i \in 1..MaxSnapshots, name \in OperatorKeys, op \in Predicates :
           CallerSets(i, name, op)
    \/ \E i \in 1..MaxSnapshots, name \in OperatorKeys : CallerDeletes(i, name)

SpecRegistry == InitRegistry /\ [][NextRegistry]_vars

----------------------------------------------------------------------------
\* The default operators applied on their own, as the tests call them:
\* defaultConditionOperators.<name>(key, value, context).

\* the values a condition carries: strings, numbers, undefined and arrays,
\* among them a string that reads as a number
OperandValues ==
    {Str("u1"), Str("2"), Num(1), Num(2), Undefined,
     Arr(<<Str("u1"), Num(2)>>), Arr(<<Undefined, Str("2")>>)}

\* the contexts, among them one whose level is a string
OperandContexts == Contexts \cup {Context(Str("u1"), Str("2"))}

\* one default operator is called and returns
Apply(name, key, value, context) ==
    /\ applied' = [name |-> name, key |-> key, value |-> value,
                   context |-> context,
                   res |-> DefaultOperator(name, key, value, context)]
    /\ UNCHANGED <<theCall, registry, memory, json, file, tasks, expected, gate,
                   instants>>

InitOperators ==
    /\ CallApart
    /\ RegistryApart
    /\ AppliedApart
    /\ AdaptersApart
    /\ GateApart
    /\ InstantsApart

NextOperators ==
    \E name \in DefaultOperatorNames, key \in {"owner", "level", "missing"},
       value \in OperandValues, context \in OperandContexts :
        Apply(name, key, value, context)

SpecOperators == InitOperators /\ [][NextOperators]_vars

----------------------------------------------------------------------------
\* The write side of the storage adapters.  InMemoryAdapter keeps three Maps
\* keyed by id; JSONFileAdapter keeps three arrays in `data`, reads the file
\* once (`loaded`) and rewrites it after every change.  An operation of
\* JSONFileAdapter is cut at its awaits: the file read of load() and the file
\* write of save().  Continuations that wait for no I/O run before any I/O
\* completes, in the order they were queued.

Types == {"users", "roles", "policies"}

StoredUser(id, roleIds) == [id |-> id, roleIds |-> roleIds, policyIds |-> <<>>]

\* the entities the callers save: two versions of each id
EntityPool ==
    [users |-> {StoredUser("u1", <<>>), StoredUser("u1", <<"r1">>),
                StoredUser("u2", <<>>), StoredUser("u2", <<"r1">>)},
     roles |-> {Role("r1", <<>>), Role("r1", <<"p1">>)},
     policies |-> {Policy("p1", <<>>),
                   Policy("p1", <<Stmt("Allow", {"read"}, {"doc:1"},
                                       Conditions(<<OwnerListed>>))>>)}]

\* the ids the callers name, among them one that is never saved
IdsOf(type) == {e.id : e \in EntityPool[type]} \cup {"nope"}

\* the position of the first element with this id, 0 if there is none
\* (Array.prototype.findIndex, counted from 1)
FindIndex(arr, id) ==
    IF \E k \in 1..Len(arr) : arr[k].id = id
    THEN CHOOSE k \in 1..Len(arr) :
             arr[k].id = id /\ \A m \in 1..(k - 1) : arr[m].id # id
    ELSE 0

\* Map.prototype.set(e.id, e): an existing key keeps its position
MapSet(entries, e) ==
    LET idx == FindIndex(entries, e.id)
    IN  IF idx > 0 THEN [entries EXCEPT ![idx] = e] ELSE Append(entries, e)

\* Map.prototype.delete(id)
MapDelete(entries, id) == SelectSeq(entries, LAMBDA e : e.id # id)

\* Map.prototype.get(id)
MapGet(entries, id) ==
    LET idx == FindIndex(entries, id)
    IN  IF idx > 0 THEN entries[idx] ELSE Undefined

\* saveX of a JSONFileAdapter that pushes without looking for the id
ArrayPush(arr, e) == Append(arr, e)

\* jsonFileAdapter.ts:80-82: idx = findIndex; if (idx >= 0) arr[idx] = e;
\* else arr.push(e)
ArrayPut(arr, e) ==
    LET idx == FindIndex(arr, e.id)
    IN  IF idx > 0 THEN [arr EXCEPT ![idx] = e] ELSE Append(arr, e)

\* jsonFileAdapter.ts:102: arr.filter(x => x.id !== id)
ArrayRemove(arr, id) == SelectSeq(arr, LAMBDA e : e.id # id)

\* jsonFileAdapter.ts:41: arr.find(x => x.id === id)
ArrayFind(arr, id) ==
    LET idx == FindIndex(arr, id)
    IN  IF idx > 0 THEN arr[idx] ELSE Undefined

\* what JSON.stringify and JSON.parse make of a condition value: JSON has no
\* undefined, inside an array it is written as null
JsonValue(v) ==
    IF v.t = "array"
    THEN Arr([i \in 1..Len(v.v) |->
                 IF v.v[i] = Undefined THEN [t |-> "null", v |-> "null"]
                 ELSE v.v[i]])
    ELSE v

\* a policy as it comes back from the file
JsonPolicy(p) ==
    [p EXCEPT !.statements =
        [j \in 1..Len(p.statements) |->
            [p.statements[j] EXCEPT !.conditions.items =
                [i \in 1..Len(p.statements[j].conditions.items) |->
                    [p.statements[j].conditions.items[i] EXCEPT
                        !.value = JsonValue(@)]]]]]

\* JSON.stringify(this.data, null, 2): the text, given by the value it denotes
Stringify(data) ==
    [data EXCEPT !.policies = [i \in 1..Len(data.policies) |->
                                  JsonPolicy(data.policies[i])]]

\* JSON.parse(raw)
Parse(text) == text

\* the value load() assigns to this.data: the parsed file, or the empty
\* collections when reading or parsing throws
Loaded(f) == IF f.exists THEN Parse(f.text) ELSE EmptyData

\* an operation op on the entities of a type: save carries the entity,
\* delete and get the id
Operation(op, type, entity, id) ==
    [op |-> op, type |-> type, entity |-> entity, id |-> id, at |-> "called",
     found |-> FALSE, text |-> EmptyData]

SaveOf(type, e) == Operation("save", type, e, e.id)
DeleteOf(type, id) == Operation("delete", type, Undefined, id)
GetOf(type, id) == Operation("get", type, Undefined, id)

\* the operations the callers start
Operations ==
    UNION {{SaveOf(type, e) : e \in EntityPool[type]}
           \cup {DeleteOf(type, id) : id \in IdsOf(type)}
           \cup {GetOf(type, id) : id \in IdsOf(type)} : type \in Types}

\* what one adapter stores after a completed operation, as the set of its
\* <<type, entity>> pairs
Record(stored, task) ==
    LET others == {x \in stored : ~(x[1] = task.type /\ x[2].id = task.id)}
    IN  CASE task.op = "save" -> others \cup {<<task.type, task.entity>>}
          [] task.op = "delete" -> others
          [] OTHER -> stored

\* every operation the callers started has completed
Completed == \A i \in 1..Len(tasks) : tasks[i].at = "done"

\* InMemoryAdapter.saveX / deleteX / getX: no await inside, the operation is
\* complete when the call returns its promise
MemoryCall(task) ==
    /\ adapter = "memory"
    /\ memory' = [memory EXCEPT ![task.type] =
           CASE task.op = "save" -> MapSet(@, task.entity)
             [] task.op = "delete" -> MapDelete(@, task.id)
             [] OTHER -> @]
    /\ tasks' = <<[task EXCEPT !.at = "done",
                               !.found = FindIndex(memory[task.type], task.id) > 0]>>
    /\ expected' = [expected EXCEPT !.memory = Record(@, task)]
    /\ UNCHANGED <<theCall, registry, applied, json, file, gate, instants>>

\* a method of JSONFileAdapter up to its first await: `await this.load()`
\* returns at once on a loaded instance and starts reading the file otherwise
Entered(task) == [task EXCEPT !.at = IF json.loaded THEN "loaded" ELSE "reading"]

\* the caller calls one method of JSONFileAdapter after the one before has
\* completed
JsonCall(task) ==
    /\ adapter = "json"
    /\ Completed
    /\ tasks' = <<Entered(task)>>
    /\ UNCHANGED <<theCall, registry, applied, memory, json, file, expected, gate,
                   instants>>

\* the caller calls two methods of JSONFileAdapter without awaiting the first
JsonCallTogether(one, two) ==
    /\ adapter = "json"
    /\ tasks = <<>>
    /\ tasks' = <<Entered(one), Entered(two)>>
    /\ UNCHANGED <<theCall, registry, applied, memory, json, file, expected, gate,
                   instants>>

\* this.data after the statements between `await this.load()` and
\* `await this.save()`
Changed(data, task) ==
    CASE task.op = "save" ->
             [data EXCEPT ![task.type] = ArrayPut(@, task.entity)]
      [] task.op = "delete" ->
             [data EXCEPT ![task.type] = ArrayRemove(@, task.id)]
      [] OTHER -> data

\* a method continues after `await this.load()` on this.data = data: get
\* returns; save and delete change this.data and call save(), which builds
\* the text and starts writing
Continue(i, data) ==
    LET task == tasks[i]
        now == Changed(data, task)
    IN  /\ json' = [data |-> now, loaded |-> TRUE]
        /\ IF task.op = "get"
           THEN /\ tasks' = [tasks EXCEPT ![i].at = "done",
                       ![i].found = FindIndex(data[task.type], task.id) > 0]
                /\ expected' = [expected EXCEPT !.json = Record(@, task)]
           ELSE /\ tasks' = [tasks EXCEPT ![i].at = "writing",
                       ![i].found = FindIndex(data[task.type], task.id) > 0,
                       ![i].text = Stringify(now)]
                /\ UNCHANGED expected

\* some continuation is queued that waits for no I/O
Queued == \E i \in 1..Len(tasks) : tasks[i].at = "loaded"

\* jsonFileAdapter.ts:27-33: the file read of load() completes; load() sets
\* this.data and this.loaded, and the method continues
ReadDone(i) ==
    /\ i \in 1..Len(tasks)
    /\ tasks[i].at = "reading"
    /\ ~Queued
    /\ Continue(i, Loaded(file))
    /\ UNCHANGED <<theCall, registry, applied, memory, file, gate, instants>>

\* jsonFileAdapter.ts:26: load() returned at once; the method continues
Resume(i) ==
    /\ i \in 1..Len(tasks)
    /\ tasks[i].at = "loaded"
    /\ \A k \in 1..(i - 1) : tasks[k].at # "loaded"
    /\ Continue(i, json.data)
    /\ UNCHANGED <<theCall, registry, applied, memory, file, gate, instants>>

\* jsonFileAdapter.ts:36: the file write of save() completes, and with it
\* the method
WriteDone(i) ==
    /\ i \in 1..Len(tasks)
    /\ tasks[i].at = "writing"
    /\ ~Queued
    /\ file' = [exists |-> TRUE, text |-> tasks[i].text]
    /\ tasks' = [tasks EXCEPT ![i].at = "done"]
    /\ expected' = [expected EXCEPT !.json = Record(@, tasks[i])]
    /\ UNCHANGED <<theCall, registry, applied, memory, json, gate, instants>>

\* the process ends and a new one constructs a JSONFileAdapter on the file
Restart ==
    /\ adapter = "json"
    /\ Completed
    /\ json.loaded
    /\ json' = JsonNew
    /\ tasks' = <<>>
    /\ UNCHANGED <<theCall, registry, applied, memory, file, expected, gate,
                   instants>>

\* one adapter of either kind, empty, and no file
InitAdapters ==
    /\ CallBegins
    /\ hooks = {}
    /\ adapter \in {"memory", "json"}
    /\ policies = <<>>
    /\ roles = <<>>
    /\ params = Params(User(<<>>, <<>>), Context(Undefined, Undefined))
    /\ SingleCall
    /\ RegistryApart
    /\ AppliedApart
    /\ AdaptersApart
    /\ GateApart
    /\ InstantsApart

NextAdapters ==
    \/ \E task \in Operations : MemoryCall(task)
    \/ \E task \in Operations : JsonCall(task)
    \/ \E i \in 1..2 : ReadDone(i)
    \/ \E i \in 1..2 : Resume(i)
    \/ \E i \in 1..2 : WriteDone(i)
    \/ Restart

SpecAdapters == InitAdapters /\ [][NextAdapters]_vars

\* a JSONFileAdapter on which nothing is in flight: new and without a file,
\* new on a file an earlier process wrote, or loaded from that file
InitJsonRace ==
    /\ CallBegins
    /\ hooks = {}
    /\ adapter = "json"
    /\ policies = <<>>
    /\ roles = <<>>
    /\ params = Params(User(<<>>, <<>>), Context(Undefined, Undefined))
    /\ SingleCall
    /\ RegistryApart
    /\ AppliedApart
    /\ memory = EmptyData
    /\ LET before == [EmptyData EXCEPT !.users = <<StoredUser("u2", <<>>)>>]
       IN  \/ file = NoFile /\ json = JsonNew /\ expected = NothingSaved
           \/ /\ file = [exists |-> TRUE, text |-> Stringify(before)]
              /\ json \in {JsonNew, [data |-> before, loaded |-> TRUE]}
              /\ expected = [NothingSaved EXCEPT
                                !.json = {<<"users", StoredUser("u2", <<>>)>>}]
    /\ tasks = <<>>
    /\ GateApart
    /\ InstantsApart

\* two mutating operations on different entities are started together, and
\* run to completion
NextJsonRace ==
    \/ \E one, two \in {task \in Operations : task.op \in {"save", "delete"}} :
           /\ <<one.type, one.id>> # <<two.type, two.id>>
           /\ JsonCallTogether(one, two)
    \/ \E i \in 1..2 : ReadDone(i)
    \/ \E i \in 1..2 : Resume(i)
    \/ \E i \in 1..2 : WriteDone(i)

SpecJsonRace == InitJsonRace /\ [][NextJsonRace]_vars

----------------------------------------------------------------------------
\* Storage that changes while a call is in flight.  The engine's adapter is an
\* InMemoryAdapter; its owner saves and deletes roles and policies.  A
\* storage method of InMemoryAdapter runs to its end when it is called, and
\* callStorage calls it in the same stretch of code that started it, so the
\* owner's code gets its turn only while IAM.can is suspended at an await.

\* most changes the owner makes while one call is in flight
MaxMutations == 2

\* the changes the owner makes
StorageMutations ==
    {[op |-> "saveRole", entity |-> Role("r1", ids), id |-> "r1"] :
         ids \in {<<>>, <<"p1">>, <<"p2">>}}
    \cup {[op |-> "savePolicy", entity |-> Policy(id, <<stmt>>), id |-> id] :
              id \in {"p1", "p2"}, stmt \in {AllowRead, DenyRead}}
    \cup {[op |-> "deleteRole", entity |-> Undefined, id |-> "r1"]}
    \cup {[op |-> "deletePolicy", entity |-> Undefined, id |-> id] :
              id \in {"p1", "p2"}}

\* the stored policies and roles at one instant
Instant(ps, rs) == [policies |-> ps, roles |-> rs]

\* IAM.can is suspended at an await: no callStorage invocation is about to
\* call its storage method, and the call is not over
Suspended ==
    /\ ~Done
    /\ \A c \in CallNames : calls[c].at # "call"

\* InMemoryAdapter.saveRole / savePolicy / deleteRole / deletePolicy, called
\* by the owner of the storage while IAM.can is suspended
Mutate(m) ==
    /\ Suspended
    /\ Len(instants) <= MaxMutations
    /\ policies' = CASE m.op = "savePolicy" -> MapSet(policies, m.entity)
                     [] m.op = "deletePolicy" -> MapDelete(policies, m.id)
                     [] OTHER -> policies
    /\ roles' = CASE m.op = "saveRole" -> MapSet(roles, m.entity)
                  [] m.op = "deleteRole" -> MapDelete(roles, m.id)
                  [] OTHER -> roles
    /\ instants' = Append(instants, Instant(policies', roles'))
    /\ UNCHANGED <<hooks, adapter, params, pc, calls, notFound, condQueue, result,
                   error, outcome, inspected, log, unhandled, other, earlier,
                   registry, applied, memory, json, file, tasks, expected, gate>>

\* an engine without hooks on an InMemoryAdapter holding role r1 and policy
\* p1, asked by a user who has the role
InitMutation ==
    /\ CallBegins
    /\ hooks = {}
    /\ adapter = "memory"
    /\ \E stmt \in {AllowRead, DenyRead} : policies = <<Policy("p1", <<stmt>>)>>
    /\ roles = <<Role("r1", <<"p1">>)>>
    /\ \E policyIds \in {<<>>, <<"p2">>} :
           params = Params(User(<<"r1">>, policyIds), Context(Str("u1"), Num(2)))
    /\ SingleCall
    /\ RegistryApart
    /\ AppliedApart
    /\ AdaptersApart
    /\ GateApart
    /\ instants = <<Instant(policies, roles)>>

\* the steps of a call on an engine without hooks whose storage does not
\* fail, and the owner's changes
NextMutation ==
    \/ BeforeDecision
    \/ CheckStorage
    \/ \E c \in CallNames : CallStorage(c)
    \/ Fetched
    \/ FetchRolePolicies
    \/ Evaluated
    \/ OnDecision
    \/ Finally
    \/ \E m \in StorageMutations : Mutate(m)

SpecMutation == InitMutation /\ [][NextMutation]_vars

----------------------------------------------------------------------------
\* The gates in front of IAM.can: the method decorators AccessControl,
\* AllowActions and DenyActions, and the framework adapters.  A gate calls
\* IAM.can, awaits it and then runs the original method or continuation, or
\* refuses.  The call it awaits is the call of the model above.

DecoratorKinds == {"AccessControl", "AllowActions", "DenyActions"}

FrameworkKinds == {"express", "fastify", "hono", "nestjs", "handleEvent",
                   "serverlessHandler"}

\* the (action, resource) pairs in the order of the loops
\*   for (const action of actions) for (const resource of resourceList)
PairsOf(actions, resources) ==
    [k \in 1..(Len(actions) * Len(resources)) |->
        <<actions[((k - 1) \div Len(resources)) + 1],
          resources[((k - 1) % Len(resources)) + 1]>>]

\* the actions and resources a gate is set up with: one of each for
\* AccessControl and the frameworks, lists for AllowActions and DenyActions
Listed(kind) ==
    IF kind \in {"AllowActions", "DenyActions"}
    THEN {PairsOf(<<"read", "write">>, <<"doc:1", "doc:2">>),
          PairsOf(<<"write", "delete">>, <<"doc:2", "doc:3">>),
          PairsOf(<<"write", "read">>, <<"doc:1">>)}
    ELSE {PairsOf(<<"read">>, <<"doc:1">>), PairsOf(<<"write">>, <<"doc:1">>)}

\* the subject the gate finds: this.user, req.user, event.user
GateUser == User(<<"r1">>, <<>>)

\* Derive that leaves the context out of the request
DeriveWithoutContext(kind, pair, context) ==
    [user |-> GateUser, action |-> pair[1], resource |-> pair[2],
     context |-> Context(Undefined, Undefined)]

\* the CanParams a gate passes to IAM.can: AccessControl and the framework
\* gates pass the context they were given, AllowActions and DenyActions pass
\* { user, action, resource } only, which IAM.can reads as an empty context
Derive(kind, pair, context) ==
    [user |-> GateUser, action |-> pair[1], resource |-> pair[2],
     context |-> IF kind \in {"AllowActions", "DenyActions"}
                 THEN Context(Undefined, Undefined)
                 ELSE context]

\* After of a gate that lets the request through whatever IAM.can decided
AfterFailOpen(kind, granted, more) == "proceed"

\* what a gate does once IAM.can has resolved with a Decision: proceed (run
\* the original method, call next, return true, resolve), refuse, or ask
\* about the next listed pair
After(kind, granted, more) ==
    CASE kind = "AllowActions" ->
             IF granted THEN "proceed" ELSE IF more THEN "ask" ELSE "refuse"
      [] kind = "DenyActions" ->
             IF granted THEN "refuse" ELSE IF more THEN "ask" ELSE "proceed"
      [] OTHER -> IF granted THEN "proceed" ELSE "refuse"

\* how a gate refuses after a Decision
Denial(kind) ==
    CASE kind = "AccessControl" -> "Access denied"
      [] kind = "AllowActions" ->
             "Access denied: none of the actions/resources allowed"
      [] kind = "DenyActions" -> "Access denied: explicitly denied action"
      [] kind \in {"express", "fastify", "hono"} -> "403"
      [] kind = "nestjs" -> "false"
      [] OTHER -> "Access denied"

\* how a framework gate refuses a request without a user
NoUser(kind) ==
    CASE kind \in {"express", "fastify", "hono"} -> "401"
      [] kind = "nestjs" -> "false"
      [] OTHER -> "User not found"

\* how a gate ends when it lets the request through
Proceeded(kind) ==
    CASE kind \in DecoratorKinds -> "original method"
      [] kind \in {"express", "hono"} -> "next()"
      [] kind = "nestjs" -> "true"
      [] OTHER -> "resolved"

\* how a gate ends when the promise of IAM.can rejects with message err: the
\* Express middleware hands the error to next, every other gate rejects
\* with it
Failed(kind, err) == IF kind = "express" THEN "next(err)" ELSE err

\* IAM.can is called with CanParams p
Begin(p) ==
    /\ params' = p
    /\ pc' = "start"
    /\ calls' = [c \in CallNames |-> IdleCall]
    /\ notFound' = <<>>
    /\ condQueue' = <<>>
    /\ result' = NoDecision
    /\ error' = NoError
    /\ outcome' = Pending
    /\ inspected' = <<>>
    /\ log' = <<>>
    /\ unhandled' = <<>>

\* the gate is over
Ends(g, ran, response) ==
    [g EXCEPT !.at = "done", !.ran = ran, !.response = response]

\* a gate is entered: a decorated method is called, a request or event
\* arrives.  A decorator without an IAM instance and a framework gate without
\* a user end here; every other gate calls IAM.can for its first pair.
GateEnter(kind, iam, user, pairs, context) ==
    /\ gate.at = "idle"
    /\ kind \in DecoratorKinds => user
    /\ kind \in FrameworkKinds => iam
    /\ LET g == [kind |-> kind, at |-> "calling", iam |-> iam, user |-> user,
                 pairs |-> pairs, context |-> context, asked |-> <<>>,
                 answers |-> <<>>, ran |-> FALSE, response |-> ""]
       IN  IF ~iam
           THEN /\ gate' = Ends(g, FALSE, "IAM instance not found")
                /\ UNCHANGED <<params, pc, calls, notFound, condQueue, result,
                               error, outcome, inspected, log, unhandled>>
           ELSE IF ~user
           THEN /\ gate' = Ends(g, FALSE, NoUser(kind))
                /\ UNCHANGED <<params, pc, calls, notFound, condQueue, result,
                               error, outcome, inspected, log, unhandled>>
           ELSE /\ gate' = [g EXCEPT !.asked = <<Derive(kind, pairs[1], context)>>]
                /\ Begin(Derive(kind, pairs[1], context))
    /\ UNCHANGED <<hooks, adapter, policies, roles, other, earlier, registry,
                   applied, memory, json, file, tasks, expected, instants>>

\* the call of IAM.can the gate awaits has settled
GateResume ==
    /\ gate.at = "calling"
    /\ Done
    /\ LET answered == [gate EXCEPT !.answers =
                           Append(@, [state |-> outcome.state,
                                      granted |-> outcome.value.decision])]
           asked == Len(gate.asked)
           more == asked < Len(gate.pairs)
           then == After(gate.kind, outcome.value.decision, more)
       IN  IF outcome.state = "rejected"
           THEN /\ gate' = Ends(answered, FALSE, Failed(gate.kind, outcome.err))
                /\ UNCHANGED <<params, pc, calls, notFound, condQueue, result,
                               error, outcome, inspected, log, unhandled>>
           ELSE IF then = "ask"
           THEN LET p == Derive(gate.kind, gate.pairs[asked + 1], gate.context)
                IN  /\ gate' = [answered EXCEPT !.asked = Append(@, p)]
                    /\ Begin(p)
           ELSE /\ gate' = IF then = "proceed"
                           THEN Ends(answered, TRUE, Proceeded(gate.kind))
                           ELSE Ends(answered, FALSE, Denial(gate.kind))
                /\ UNCHANGED <<params, pc, calls, notFound, condQueue, result,
                               error, outcome, inspected, log, unhandled>>
    /\ UNCHANGED <<hooks, adapter, policies, roles, other, earlier, registry,
                   applied, memory, json, file, tasks, expected, instants>>

\* a storage like that of the decorator tests (role r1 with policy p1, which
\* here allows read on doc:1 to the owner u1, and policy p2, which allows
\* write on doc:2), behind one of two engines (one without hooks on an
\* InMemoryAdapter, one with an onError hook on a storage whose calls may
\* reject), and no gate entered, no call made
InitGates ==
    /\ \E engine \in {<<{}, "memory">>, <<{"onError"}, "custom">>} :
           hooks = engine[1] /\ adapter = engine[2]
    /\ policies = <<Policy("p1", <<Stmt("Allow", {"read"}, {"doc:1"},
                                         Conditions(<<OwnerIsU1>>))>>),
                  Policy("p2", <<Stmt("Allow", {"write"}, {"doc:2"},
                                         NoConditions)>>)>>
    /\ roles = <<Role("r1", <<"p1", "p2">>)>>
    /\ params = Params(GateUser, Context(Undefined, Undefined))
    /\ pc = "idle"
    /\ calls = [c \in CallNames |-> IdleCall]
    /\ notFound = <<>>
    /\ condQueue = <<>>
    /\ result = NoDecision
    /\ error = NoError
    /\ outcome = Pending
    /\ inspected = <<>>
    /\ log = <<>>
    /\ unhandled = <<>>
    /\ SingleCall
    /\ RegistryApart
    /\ AppliedApart
    /\ AdaptersApart
    /\ GateApart
    /\ InstantsApart

NextGates ==
    \/ \E kind \in DecoratorKinds \cup FrameworkKinds, iam, user \in BOOLEAN,
          context \in {Context(Str("u1"), Num(2)), Context(Str("u2"), Num(2))} :
           \E pairs \in Listed(kind) : GateEnter(kind, iam, user, pairs, context)
    \/ GateResume
    \/ BeforeDecision
    \/ CheckStorage
    \/ \E c \in CallNames : CallStorage(c)
    \/ Fetched
    \/ FetchRolePolicies
    \/ Evaluated
    \/ OnDecision
    \/ Catch
    \/ Finally

SpecGates == InitGates /\ [][NextGates]_vars

----------------------------------------------------------------------------
\* Vocabulary of the properties below, stated without the evaluator.

Range(q) == {q[i] : i \in 1..Len(q)}

Last(q) == q[Len(q)]

IsPrefix(a, b) == Len(a) <= Len(b) /\ SubSeq(b, 1, Len(a)) = a

NoRepeats(q) == \A i, k \in 1..Len(q) : q[i] = q[k] => i = k


Granted == outcome.state = "resolved" /\ outcome.value.decision
ReturnedReason == outcome.value.trace.reason
CheckedPolicies == outcome.value.trace.checkedPolicies

\* the policies handed to the evaluator: [...userPolicies, ...rolePolicies]
FetchedPolicies == calls["userPolicies"].res \o calls["rolePolicies"].res

\* the elements of a sequence of entities whose id did not occur before
RECURSIVE KeepFirst(_, _)
KeepFirst(q, seen) ==
    IF q = <<>> THEN <<>>
    ELSE IF Head(q).id \in seen THEN KeepFirst(Tail(q), seen)
    ELSE <<Head(q)>> \o KeepFirst(Tail(q), seen \cup {Head(q).id})

Ids(q) == [i \in 1..Len(q) |-> q[i].id]

\* a condition holds: its operator is registered and returns true
ConditionHolds(cond, context) ==
    /\ cond.operator \in DefaultOperatorNames
    /\ DefaultOperator(cond.operator, cond.key, cond.value, context)

\* a statement matches a request (spec 4.2, step 3)
Matches(stmt, p) ==
    /\ p.action \in stmt.actions
    /\ p.resource \in stmt.resources
    /\ \A i \in 1..Len(stmt.conditions.items) :
           ConditionHolds(stmt.conditions.items[i], p.context)

\* positions <<policy index, statement index>> of a policy sequence
Positions(ps) ==
    UNION {{<<i, j>> : j \in 1..Len(ps[i].statements)} : i \in 1..Len(ps)}

Before(x, y) == x[1] < y[1] \/ (x[1] = y[1] /\ x[2] < y[2])

MatchingPositions(ps, p) ==
    {x \in Positions(ps) : Matches(ps[x[1]].statements[x[2]], p)}

FirstMatch(ps, p) ==
    CHOOSE x \in MatchingPositions(ps, p) :
        \A y \in MatchingPositions(ps, p) : x = y \/ Before(x, y)

\* the stored entity of each id, in the order of the ids; unknown ids dropped
RECURSIVE Resolved(_, _)
Resolved(stored, ids) ==
    IF ids = <<>> THEN <<>>
    ELSE LET known == {i \in 1..Len(stored) : stored[i].id = Head(ids)}
         IN  (IF known = {} THEN <<>> ELSE <<stored[CHOOSE i \in known : TRUE]>>)
             \o Resolved(stored, Tail(ids))

\* the policies reachable from the user, directly or through its roles
ReachablePolicies ==
    LET rs == {r \in Range(roles) : r.id \in Range(params.user.roleIds)}
        ids == Range(params.user.policyIds) \cup UNION {Range(r.policyIds) : r \in rs}
    IN  {pol \in Range(policies) : pol.id \in ids}

\* the statement behind an entry of `inspected`
StatementAt(pair) ==
    LET pol == CHOOSE q \in Range(FetchedPolicies) : q.id = pair[1]
    IN  pol.statements[pair[2]]

----------------------------------------------------------------------------
\* C1.  First-match-wins: the outcome of IAM.can is decided by the first
\* statement, in policy order and then statement order, that matches the
\* request: Allow grants with reason "Allowed by policy <id>", Deny denies
\* with reason "Denied by policy <id>", and nothing after it is inspected.
FirstMatchWins ==
    (Done /\ error = NoError) =>
        LET ps == KeepFirst(FetchedPolicies, {})
        IN  MatchingPositions(ps, params) # {} =>
                LET x == FirstMatch(ps, params)
                    stmt == ps[x[1]].statements[x[2]]
                IN  /\ outcome.state = "resolved"
                    /\ outcome.value.decision = (stmt.effect = "Allow")
                    /\ ReturnedReason =
                           Reason(IF stmt.effect = "Allow" THEN "Allowed by policy"
                                  ELSE "Denied by policy", ps[x[1]].id)
                    /\ Last(inspected) = <<ps[x[1]].id, x[2]>>

\* C2.  Deny-by-default: if no statement of any policy reachable from the
\* subject matches, IAM.can returns granted = false with reason
\* "No matching policy".
DenyByDefault ==
    (/\ Done
     /\ error = NoError
     /\ \A pol \in ReachablePolicies :
            \A j \in 1..Len(pol.statements) : ~Matches(pol.statements[j], params))
    => /\ outcome.state = "resolved"
       /\ ~outcome.value.decision
       /\ ReturnedReason = Reason("No matching policy", "")

\* C3.  Statement match predicate: the evaluator takes a statement as matching
\* if and only if action and resource are listed and every condition
\* evaluates true through its named operator (an unregistered operator fails).
\* Every inspected statement but the deciding one was taken as not matching.
MatchPredicate ==
    (Done /\ error = NoError) =>
        \A k \in 1..Len(inspected) :
            Matches(StatementAt(inspected[k]), params)
                <=> (k = Len(inspected) /\ result.trace.reason.id # "")

\* the same call on an engine without hooks
WithoutHooks ==
    LET user == params.user
        userPolicies == StorageResult(adapter, policies, user.policyIds)
        userRoles == StorageResult(adapter, roles, user.roleIds)
        rolePolicies == StorageResult(adapter, policies, FlatPolicyIds(userRoles))
        r == Evaluate(params.action, params.resource, params.context,
                      userPolicies \o rolePolicies, FALSE)
    IN  Decision(r.decision, r.trace)

\* C4.  Hooks do not change the verdict: with any set of hooks registered, none
\* of which throws, IAM.can returns the granted value, reason and
\* checkedPolicies of the same call on an engine without hooks.
HooksKeepVerdict ==
    DoneCleanly => outcome.state = "resolved" /\ outcome.value = WithoutHooks

\* the evaluation order C5 states, as policy ids
StatedOrder ==
    LET user == params.user
        direct == Resolved(policies, user.policyIds)
        viaRoles == Resolved(policies,
                             FlatPolicyIds(Resolved(roles, user.roleIds)))
    IN  Ids(KeepFirst(direct \o viaRoles, {}))

\* C5.  Policy evaluation order: first the directly attached policies in the
\* order of user.policyIds, then per role in the order of user.roleIds the
\* role's policies in the order of role.policyIds, each policy once at its
\* first occurrence; with InMemoryAdapter and with JSONFileAdapter.
EvaluationOrder ==
    (Done /\ error = NoError /\ adapter \in {"memory", "json"}) =>
        /\ IsPrefix(CheckedPolicies, StatedOrder)
        /\ ReturnedReason.id = "" => CheckedPolicies = StatedOrder

\* C6.  Trace content: on every non-error return checkedPolicies lists the
\* visited policies in evaluation order, each id once; when a statement
\* matched, its last id is the deciding policy named in the reason.
TraceContent ==
    (Done /\ outcome.state = "resolved" /\ error = NoError) =>
        LET order == Ids(KeepFirst(FetchedPolicies, {}))
        IN  /\ NoRepeats(CheckedPolicies)
            /\ IsPrefix(CheckedPolicies, order)
            /\ \A k \in 1..Len(inspected) : inspected[k][1] \in Range(CheckedPolicies)
            /\ ReturnedReason.id # "" =>
                   /\ CheckedPolicies # <<>>
                   /\ Last(CheckedPolicies) = ReturnedReason.id
                   /\ Last(inspected)[1] = ReturnedReason.id
            /\ ReturnedReason.id = "" => CheckedPolicies = order

\* C6 happens: a policy fetched directly and through two roles, passed over by
\* the evaluator, is listed once in front of the deciding policy
TraceContentWitness ==
    /\ Done /\ outcome.state = "resolved" /\ error = NoError
    /\ Cardinality({i \in 1..Len(FetchedPolicies) : FetchedPolicies[i].id = "p1"}) >= 3
    /\ "p1" \in Range(params.user.policyIds)
    /\ Len(calls["userRoles"].res) = 2
    /\ CheckedPolicies = <<"p1", "p2">>
    /\ ReturnedReason.id = "p2"

\* C7.  The caller always receives a Decision: whatever storage and hooks do,
\* the promise returned by IAM.can resolves, and every internal failure
\* yields granted = false.
AlwaysADecision ==
    Done => /\ outcome.state = "resolved"
            /\ error # NoError => ~outcome.value.decision

\* C8.  Fail-closed on missing storage: without a storage adapter every call
\* (that gets as far as the storage check) returns granted = false with reason
\* "No storage adapter configured" and empty checkedPolicies, and evaluates
\* no policy.
MissingStorageDenied ==
    (Done /\ adapter = "none" /\ error = NoStorageMessage) =>
        /\ outcome.state = "resolved"
        /\ ~outcome.value.decision
        /\ ReturnedReason = Reason(NoStorageMessage, "")
        /\ CheckedPolicies = <<>>
        /\ inspected = <<>>

\* the storage calls made for callStorage invocation c
StorageCalls(c) == {i \in 1..Len(log) : log[i].name = "storage" /\ log[i].phase = c}

\* C9.  Fail-closed on storage error: if getPolicies or getRoles rejects,
\* evaluation halts, the call returns granted = false with the error's message
\* as reason, and the failed storage call is not retried.
StorageErrorDenied ==
    \A c \in CallNames :
        (/\ Done
         /\ calls[c].at = "rejected"
         /\ calls[c].err = StorageError(Method(c))
         /\ error = calls[c].err)
        => /\ outcome.state = "resolved"
           /\ ~outcome.value.decision
           /\ ReturnedReason = Reason(StorageError(Method(c)), "")
           /\ ~result.defined
           /\ Cardinality(StorageCalls(c)) = 1

\* C10.  If onDecision throws, IAM.can returns a denied Decision whose reason
\* is the hook's error message, whatever the evaluator had decided.
OnDecisionThrowDenied ==
    (Done /\ error = HookError("onDecision")) =>
        /\ outcome.state = "resolved"
        /\ ~outcome.value.decision
        /\ ReturnedReason = Reason(HookError("onDecision"), "")

\* the positions of the log at which hook (or storage method) `name` was invoked
Invocations(name) == {i \in 1..Len(log) : log[i].name = name}

\* the hooks IAM.can invokes between its entry and the evaluator's return
MainPathHooks == {"onBeforeDecision", "onStorageAccess", "onRoleNotFound",
                  "onConditionCheck"}

\* hook h threw during the call: an awaited hook interrupts the call with its
\* error; the error of onConditionCheck rejects the promise of its wrapper
Threw(h) ==
    IF h = "onConditionCheck" THEN HookError(h) \in Range(unhandled)
    ELSE error = HookError(h)

\* C11.  A hook throwing on the main evaluation path is caught and degrades
\* the call to deny: if onBeforeDecision, onStorageAccess, onRoleNotFound or
\* onConditionCheck throws, IAM.can returns granted = false with the hook's
\* error message as reason.
HookThrowDenied ==
    \A h \in MainPathHooks :
        (Done /\ Threw(h)) =>
            /\ outcome.state = "resolved"
            /\ ~outcome.value.decision
            /\ ReturnedReason = Reason(HookError(h), "")

\* C12.  onAfterDecision is invoked exactly once per IAM.can call on every
\* path (grant, denial, thrown error, onError throwing), after onDecision and
\* onError; what it throws is swallowed: the call completes as the try and
\* catch blocks left it, with the evaluator's Decision or the denial of the
\* caught error.
AfterDecisionOnce ==
    (Done /\ "onAfterDecision" \in hooks) =>
        /\ Cardinality(Invocations("onAfterDecision")) = 1
        /\ \A k \in Invocations("onAfterDecision") :
               \A i \in Invocations("onDecision") \cup Invocations("onError") : i < k
        /\ outcome.state \in {"resolved", "rejected"}
        /\ outcome.state = "resolved" =>
               outcome.value = IF error = NoError THEN result ELSE ErrorDecision(error)
        /\ outcome.state = "rejected" =>
               /\ outcome.err = HookError("onError")
               /\ Invocations("onError") # {}

\* C12 happens: onAfterDecision threw after the evaluator had granted, and
\* the caller received the grant
AfterDecisionOnceWitness ==
    /\ Done
    /\ Invocations("onAfterDecision") # {}
    /\ Invocations("console.error") # {}
    /\ Granted
    /\ outcome.value = result

\* the role ids of the subject that storage does not hold
UnresolvedRoleIds ==
    {id \in Range(params.user.roleIds) : \A r \in Range(roles) : r.id # id}

\* the onRoleNotFound invocations that reported `id`
Reports(id) == {i \in Invocations("onRoleNotFound") : log[i].arg = <<id>>}

\* C13.  onRoleNotFound reporting: in every call with onRoleNotFound
\* registered (that gets as far as the evaluator) the hook is invoked exactly
\* once for each role id of user.roleIds that storage does not resolve and
\* never for a resolved id, also when other role ids of the subject resolve;
\* if user.roleIds is empty it is invoked exactly once, with null.
RoleNotFoundReporting ==
    (Done /\ "onRoleNotFound" \in hooks /\ result.defined) =>
        IF params.user.roleIds = <<>>
        THEN /\ Cardinality(Invocations("onRoleNotFound")) = 1
             /\ Cardinality(Reports("null")) = 1
        ELSE /\ Reports("null") = {}
             /\ \A id \in Range(params.user.roleIds) :
                    Cardinality(Reports(id)) = IF id \in UnresolvedRoleIds THEN 1 ELSE 0

\* the phase of a call (C14) in which a hook is invoked
HookPhase(name) ==
    CASE name = "onBeforeDecision" -> 1
      [] name = "onStorageAccess"  -> 2
      [] name = "onRoleNotFound"   -> 3
      [] name = "onConditionCheck" -> 4
      [] name \in {"onDecision", "onError"} -> 5
      [] name = "onAfterDecision"  -> 6

\* the positions of the log that are hook invocations
HookInvocations == {i \in 1..Len(log) : log[i].name \in HookNames}

\* C14.  Hook ordering within one call: onBeforeDecision is invoked once,
\* first and before any storage access (also without storage); then all
\* onStorageAccess pairs; then the onRoleNotFound notifications; then the
\* onConditionCheck notifications; then onDecision or onError; then
\* onAfterDecision, last.  No hook of a later phase is invoked before a hook
\* of an earlier phase.
HookOrdering ==
    /\ \A i, k \in HookInvocations :
           i < k => HookPhase(log[i].name) <= HookPhase(log[k].name)
    /\ ("onBeforeDecision" \in hooks /\ pc # "start") =>
           /\ Invocations("onBeforeDecision") = {1}
    /\ ("onAfterDecision" \in hooks /\ Done) =>
           \E k \in Invocations("onAfterDecision") : \A i \in HookInvocations : i <= k

\* the onStorageAccess invocations made from callStorage invocation c, before
\* or after its storage call
AccessHooks(c, phase) ==
    {i \in Invocations("onStorageAccess") : log[i].phase = phase /\ log[i].arg[1] = c}

Check(operator, key, res) == <<operator, key, IF res THEN "true" ELSE "false">>

\* the notifications due for a condition list evaluated from condition i on:
\* one per condition whose operator runs, up to the first failing condition
RECURSIVE ChecksOfConditions(_, _, _)
ChecksOfConditions(conds, i, context) ==
    IF i > Len(conds) THEN <<>>
    ELSE LET cond == conds[i]
         IN  IF cond.operator \notin DefaultOperatorNames THEN <<>>
             ELSE LET res == DefaultOperator(cond.operator, cond.key, cond.value,
                                             context)
                  IN  <<Check(cond.operator, cond.key, res)>>
                      \o (IF res THEN ChecksOfConditions(conds, i + 1, context)
                          ELSE <<>>)

\* the notifications due for one statement: its conditions are evaluated only
\* if its actions and resources list the request
ChecksOfStatement(stmt, p) ==
    IF p.action \in stmt.actions /\ p.resource \in stmt.resources
    THEN ChecksOfConditions(stmt.conditions.items, 1, p.context)
    ELSE <<>>

\* the notifications due for the policies ps from statement j of policy i on,
\* up to the first matching statement
RECURSIVE ChecksFrom(_, _, _, _)
ChecksFrom(ps, i, j, p) ==
    IF i > Len(ps) THEN <<>>
    ELSE IF j > Len(ps[i].statements) THEN ChecksFrom(ps, i + 1, 1, p)
    ELSE LET stmt == ps[i].statements[j]
         IN  ChecksOfStatement(stmt, p)
             \o (IF Matches(stmt, p) THEN <<>> ELSE ChecksFrom(ps, i, j + 1, p))

\* the onConditionCheck notifications of the call, in order
ObservedChecks ==
    LET es == SelectSeq(log, LAMBDA e : e.name = "onConditionCheck")
    IN  [i \in 1..Len(es) |-> <<es[i].phase, es[i].arg[1], es[i].arg[2]>>]

\* C16.  onConditionCheck is invoked exactly once for each condition that is
\* evaluated during matching, after the condition's operator has run and with
\* the operator's result, and is not invoked for conditions that are not
\* evaluated: those after the first failing condition of a statement and
\* those of statements after the first match.
ConditionCheckPerCondition ==
    (Done /\ "onConditionCheck" \in hooks) =>
        ObservedChecks =
            IF result.defined
            THEN ChecksFrom(KeepFirst(FetchedPolicies, {}), 1, 1, params)
            ELSE <<>>

\* something threw during the evaluation of the call: the missing adapter, a
\* storage call or a hook
SomethingThrew == error # NoError \/ unhandled # <<>>

\* C17.  onDecision and onError are path-exclusive: onDecision is invoked
\* once, with the Decision, only when evaluation completes without an error;
\* onError is invoked exactly once, with the error, if and only if something
\* throws during evaluation (missing storage, storage failure, another hook
\* throwing), and never on a call where nothing throws.
DecisionOrError ==
    Done =>
        /\ "onDecision" \in hooks =>
               /\ Cardinality(Invocations("onDecision")) = IF result.defined THEN 1 ELSE 0
               /\ (Invocations("onDecision") # {} /\ error = NoError) =>
                      outcome.state = "resolved" /\ outcome.value = result
        /\ "onError" \in hooks =>
               /\ Cardinality(Invocations("onError")) = IF SomethingThrew THEN 1 ELSE 0
               /\ \A i \in Invocations("onError") : log[i].arg = <<error>>
        /\ (Invocations("onDecision") # {} /\ Invocations("onError") # {}) =>
               error = HookError("onDecision")

\* ids that occur in a list of references and not in storage
Unresolved(stored, ids) == {id \in Range(ids) : \A e \in Range(stored) : e.id # id}

\* the subject refers to a role or policy, or one of its roles to a policy,
\* that storage does not hold
SomeUnresolved ==
    \/ Unresolved(roles, params.user.roleIds) # {}
    \/ Unresolved(policies, params.user.policyIds) # {}
    \/ \E r \in Range(roles) :
           /\ r.id \in Range(params.user.roleIds)
           /\ Unresolved(policies, r.policyIds) # {}

\* C18.  An unresolvable reference is not fatal: when a role id or policy id
\* of the subject, or a policy id of one of its roles, is not in storage,
\* IAM.can does not fail but evaluates every policy that did resolve; the
\* subject is granted what a resolved policy allows.
UnresolvedNotFatal ==
    (Done /\ adapter \in {"memory", "json"} /\ SomeUnresolved) =>
        /\ hooks = {} => error = NoError /\ outcome.state = "resolved"
        /\ result.defined =>
               /\ Range(FetchedPolicies) = ReachablePolicies
               /\ result.trace.reason.id = "" =>
                      Range(result.trace.checkedPolicies) =
                          {pol.id : pol \in ReachablePolicies}
        /\ (/\ error = NoError
            /\ \A pol \in ReachablePolicies : \A j \in 1..Len(pol.statements) :
                   pol.statements[j].effect = "Allow"
            /\ \E pol \in ReachablePolicies : \E j \in 1..Len(pol.statements) :
                   Matches(pol.statements[j], params))
           => Granted

\* C18 happens: of the subject's two roles the first is not in storage, and
\* the policy of the second grants the request
UnresolvedNotFatalWitness ==
    /\ Done
    /\ Len(params.user.roleIds) = 2
    /\ params.user.roleIds[1] \in Unresolved(roles, params.user.roleIds)
    /\ params.user.roleIds[2] \notin Unresolved(roles, params.user.roleIds)
    /\ params.user.policyIds = <<>>
    /\ Granted
    /\ ReturnedReason = Reason("Allowed by policy", "p1")

Answered(call) ==
    /\ call.outcome.state \in {"returning", "resolved"}
    /\ call.error = NoError
    /\ call.unhandled = <<>>

\* C20.  Determinism, no state between calls: two IAM.can calls with the same
\* subject, action, resource and context against unchanged storage (and in
\* which no hook throws) return the same granted value, reason and
\* checkedPolicies, whether one runs after the other or both are in flight
\* together, and whatever other calls the engine served in between.
SameAnswer ==
    Answered(Running) =>
        /\ \A e \in earlier :
               e.request = Request(params) => e.value = outcome.value
        /\ (Answered(other) /\ Request(other.params) = Request(params)) =>
               other.outcome.value = outcome.value

\* C20 happens: two calls with the same request are in flight together, both
\* about to return the grant that an earlier call with this request returned,
\* and the engine has served a different request in between
SameAnswerWitness ==
    /\ pc = "finally" /\ Answered(Running)
    /\ other.pc = "finally" /\ Answered(other)
    /\ Request(other.params) = Request(params)
    /\ outcome.value.decision
    /\ other.outcome.value = outcome.value
    /\ \E e \in earlier : e.request = Request(params) /\ e.value = outcome.value
    /\ \E e \in earlier : e.request # Request(params) /\ ~e.value.decision

----------------------------------------------------------------------------
\* C27.  The Decision handed to onAfterDecision is the Decision the caller
\* gets: whenever onAfterDecision was invoked with a decision as its first
\* argument, IAM.can returns a Decision with the same granted value, reason
\* and checkedPolicies.
AfterDecisionSeesReturned ==
    (/\ Done
     /\ \E i \in 1..Len(log) :
            log[i].name = "onAfterDecision" /\ log[i].phase = "decision")
    => /\ outcome.state = "resolved"
       /\ outcome.value.decision = result.decision
       /\ outcome.value.trace.reason = result.trace.reason
       /\ outcome.value.trace.checkedPolicies = result.trace.checkedPolicies

\* C30.  Asynchronous operators are honoured: on an engine whose operators
\* return their boolean through a Promise (the wrappers IAM.can installs when
\* onConditionCheck is registered), the statement that decided the call has
\* no condition whose operator resolved to false.
AsyncOperatorsHonoured ==
    (/\ "onConditionCheck" \in hooks
     /\ Done
     /\ result.defined
     /\ result.trace.reason.id # "")
    => LET conds == StatementAt(Last(inspected)).conditions.items
       IN  \A i \in 1..Len(conds) :
               OperatorLookup(conds[i].operator, TRUE) = "wrapped" =>
                   DefaultOperator(conds[i].operator, conds[i].key,
                                   conds[i].value, params.context)

\* the properties of the mapping a call of all() would return now
Snapshot(r) == LET a == All(r) IN a.heap[a.ref]

\* C21.  ConditionOperatorRegistry.all() returns a snapshot copy: adding,
\* replacing or deleting entries in a returned mapping never changes what a
\* later get(name) or all() on the registry returns, and a later register()
\* does not change a mapping returned earlier.
AllIsSnapshot ==
    [][/\ registry'.did \in {"set", "delete"} =>
              /\ \A name \in OperatorKeys :
                     Get(registry', name) = Get(registry, name)
              /\ Snapshot(registry') = Snapshot(registry)
       /\ registry'.did = "register" =>
              \A i \in 1..Len(registry.returned) :
                  registry'.heap[registry.returned[i]]
                      = registry.heap[registry.returned[i]]]_vars

\* C21 happens: the registry holds "eq" and the caller holds two mappings
\* from all(), one with an entry the registry lacks and without the entry the
\* registry has, the other empty; the caller's last step was a deletion
AllIsSnapshotWitness ==
    /\ Len(registry.returned) = 2
    /\ LET own == registry.heap[registry.operators]
           one == registry.heap[registry.returned[1]]
           two == registry.heap[registry.returned[2]]
       IN  /\ DOMAIN own = {"eq"}
           /\ DOMAIN one = {"custom"}
           /\ DOMAIN two = {}
    /\ registry.did = "delete"

\* context[key] of the last application, undefined for an absent key
Operand ==
    IF applied.key \in DOMAIN applied.context
    THEN applied.context[applied.key] ELSE Undefined

\* two values are the same primitive value
SamePrimitive(a, b) == a.t \in {"undefined", "string", "number"} /\ a = b

\* both operands are numbers and stand in relation rel
Numeric(rel(_, _)) ==
    /\ Operand.t = "number"
    /\ applied.value.t = "number"
    /\ rel(Operand.v, applied.value.v)

\* C22.  Default operators are total and follow their table: for every key,
\* value and context (an absent context key and type-mismatched operands
\* included) each returns a boolean: eq strict equality of context[key] and
\* value, ne its negation, gt/lt/gte/lte the numeric comparison when both
\* operands are numbers and false otherwise, in true only when value is a
\* sequence containing context[key].
OperatorTable ==
    applied # NotApplied =>
        /\ applied.res \in BOOLEAN
        /\ applied.name = "eq" =>
               applied.res = SamePrimitive(Operand, applied.value)
        /\ applied.name = "ne" =>
               applied.res = ~SamePrimitive(Operand, applied.value)
        /\ applied.name = "gt" =>
               applied.res = Numeric(LAMBDA a, b : a > b)
        /\ applied.name = "lt" =>
               applied.res = Numeric(LAMBDA a, b : a < b)
        /\ applied.name = "gte" =>
               applied.res = Numeric(LAMBDA a, b : a >= b)
        /\ applied.name = "lte" =>
               applied.res = Numeric(LAMBDA a, b : a <= b)
        /\ applied.name = "in" =>
               applied.res =
                   (/\ applied.value.t = "array"
                    /\ \E i \in 1..Len(applied.value.v) :
                           SamePrimitive(applied.value.v[i], Operand))

\* C22 happens: gt was applied to a string that reads as a greater number
\* and returned false
OperatorTableWitness ==
    /\ applied.name = "gt"
    /\ applied.key = "level"
    /\ Operand = Str("2")
    /\ applied.value = Num(1)
    /\ ~applied.res

\* what getX(id) of the adapter in use returns now: JSONFileAdapter loads the
\* file first if it has not
GetNow(type, id) ==
    IF adapter = "memory" THEN MapGet(memory[type], id)
    ELSE ArrayFind((IF json.loaded THEN json.data ELSE Loaded(file))[type], id)

\* the entries the adapter in use holds for a type
EntriesNow(type) ==
    IF adapter = "memory" THEN memory[type]
    ELSE (IF json.loaded THEN json.data ELSE Loaded(file))[type]

\* the entities of a type the completed operations left stored
Kept(type) == {x[2] : x \in {y \in expected[adapter] : y[1] = type}}

\* C23.  Storage adapters behave as a map keyed by id: after any sequence of
\* completed save and delete operations on InMemoryAdapter or JSONFileAdapter,
\* getX(id) returns the most recently saved entity of that type with that id
\* if it was not deleted afterwards and undefined otherwise; no id has a
\* second entry, and the adapter holds nothing else (deleting a non-existent
\* id changed nothing).
MapKeyedById ==
    Completed =>
        \A type \in Types :
            /\ \A id \in IdsOf(type) :
                   GetNow(type, id) =
                       IF \E e \in Kept(type) : e.id = id
                       THEN CHOOSE e \in Kept(type) : e.id = id
                       ELSE Undefined
            /\ NoRepeats(Ids(EntriesNow(type)))
            /\ Range(EntriesNow(type)) = Kept(type)

\* C23 happens: on a JSONFileAdapter holding two users, a save of an id
\* that was stored has completed
MapKeyedByIdWitness ==
    /\ adapter = "json"
    /\ Len(tasks) = 1
    /\ tasks[1].at = "done"
    /\ tasks[1].op = "save"
    /\ tasks[1].found
    /\ tasks[1].entity = StoredUser("u1", <<"r1">>)
    /\ Len(json.data.users) = 2

\* the effect of a completed mutating operation is present in the
\* collections `data`
Present(task, data) ==
    ArrayFind(data[task.type], task.id) =
        IF task.op = "save" THEN task.entity ELSE Undefined

\* C29.  No lost update in JSONFileAdapter: when two mutating operations are
\* started together on one instance (loaded or not yet loaded), then after
\* both have completed both effects are present: getX returns what was saved
\* and the file as written last holds both.
NoLostUpdate ==
    (Len(tasks) = 2 /\ Completed) =>
        \A i \in 1..2 :
            /\ Present(tasks[i], json.data)
            /\ Present(tasks[i], Loaded(file))

\* the Decision of the call's request on storage holding policies ps and
\* roles rs
DecisionOn(ps, rs) ==
    LET user == params.user
        userPolicies == StorageResult(adapter, ps, user.policyIds)
        userRoles == StorageResult(adapter, rs, user.roleIds)
        rolePolicies == StorageResult(adapter, ps, FlatPolicyIds(userRoles))
        r == Evaluate(params.action, params.resource, params.context,
                      userPolicies \o rolePolicies, FALSE)
    IN  Decision(r.decision, r.trace)

\* C28.  Snapshot consistency under concurrent mutation: when storage is
\* mutated while an IAM.can call is in flight, every granted Decision the
\* call returns is the one the evaluation produces for the storage contents
\* of some single instant between the start and the end of the call.
SnapshotConsistency ==
    (Done /\ Granted) =>
        \E i \in 1..Len(instants) :
            DecisionOn(instants[i].policies, instants[i].roles) = outcome.value

\* the gate has ended
GateDone(kinds) == gate.at = "done" /\ gate.kind \in kinds

\* the request the gate was set up for: its subject, its single action and
\* resource, and the context it was given
GateRequest ==
    [user |-> GateUser, action |-> gate.pairs[1][1],
     resource |-> gate.pairs[1][2], context |-> gate.context]

\* the call of IAM.can the gate awaited returned a denied Decision
Refused == outcome.state = "resolved" /\ ~outcome.value.decision

\* C24.  AccessControl decorator gate: a method decorated with @AccessControl
\* runs its original body if and only if IAM.can granted the derived (user,
\* action, resource, context) request; when the decision is denied the call
\* rejects with 'Access denied' and the body is never invoked; when no IAM
\* instance is available it fails with 'IAM instance not found' without
\* invoking the body.
AccessControlGate ==
    GateDone({"AccessControl"}) =>
        /\ gate.ran <=> (gate.iam /\ Granted /\ params = GateRequest)
        /\ gate.iam => gate.asked = <<GateRequest>>
        /\ (gate.iam /\ Refused) =>
               gate.response = "Access denied" /\ ~gate.ran
        /\ ~gate.iam =>
               /\ gate.response = "IAM instance not found"
               /\ ~gate.ran
               /\ gate.asked = <<>> /\ pc = "idle"

\* C24 happens: a method decorated with @AccessControl has run its body
\* after IAM.can granted on the owner's context
AccessControlGateWitness ==
    /\ GateDone({"AccessControl"})
    /\ gate.ran
    /\ gate.response = "original method"
    /\ Granted
    /\ gate.context = Context(Str("u1"), Num(2))

\* some call of IAM.can the gate made returned a granted Decision
SomeGranted ==
    \E k \in 1..Len(gate.answers) :
        gate.answers[k].state = "resolved" /\ gate.answers[k].granted

\* C25.  AllowActions / DenyActions gates: a method decorated with
\* @AllowActions runs its body if and only if IAM.can grants at least one of
\* the listed (action, resource) pairs, and otherwise rejects with 'Access
\* denied'; a method decorated with @DenyActions rejects with 'explicitly
\* denied action' if and only if IAM.can grants at least one listed pair, and
\* otherwise runs its body.
ActionListGates ==
    (GateDone({"AllowActions", "DenyActions"}) /\ gate.iam) =>
        /\ gate.kind = "AllowActions" =>
               /\ gate.ran <=> SomeGranted
               /\ ~SomeGranted =>
                      gate.response =
                          "Access denied: none of the actions/resources allowed"
        /\ gate.kind = "DenyActions" =>
               /\ (gate.response = "Access denied: explicitly denied action")
                      <=> SomeGranted
               /\ ~SomeGranted => gate.ran

\* how the framework gates reject: a request without a user, and a request
\* IAM.can denied
Rejection(kind) ==
    CASE kind \in {"express", "fastify", "hono"} ->
             [nobody |-> "401", denied |-> "403"]
      [] kind = "nestjs" -> [nobody |-> "false", denied |-> "false"]
      [] OTHER -> [nobody |-> "User not found", denied |-> "Access denied"]

\* C26.  Framework adapters are fail-closed gates: for the Express
\* middleware, Fastify hook, Hono middleware, NestJS guard, handleEvent and
\* serverlessHandler the request proceeds only if a user is present and
\* IAM.can granted; a missing user is rejected (401, false, 'User not found')
\* without calling IAM.can, and a denied decision is rejected (403, false,
\* 'Access denied') without the continuation being invoked.
FrameworkGates ==
    GateDone(FrameworkKinds) =>
        /\ (gate.ran \/ gate.response \in {"next()", "true", "resolved"}) =>
               gate.user /\ Granted /\ params = GateRequest
        /\ ~gate.user =>
               /\ gate.response = Rejection(gate.kind).nobody
               /\ ~gate.ran
               /\ gate.asked = <<>> /\ pc = "idle" /\ log = <<>>
        /\ (gate.user /\ Refused) =>
               /\ gate.response = Rejection(gate.kind).denied
               /\ ~gate.ran

\* C26 happens: the Express middleware has answered 403 after IAM.can denied
\* a request whose user is present
FrameworkGatesWitness ==
    /\ GateDone({"express"})
    /\ gate.user
    /\ Refused
    /\ outcome.value.trace.reason = Reason("No matching policy", "")
    /\ gate.response = "403"

====
